---- MODULE Spec2Model ----
(***************************************************************************)
(* A model of the Google Cloud Storage backend of the virtual filesystem   *)
(* (internal/vfs/gcsfs.go): the object store is a map from keys to         *)
(* objects, keys and paths are sequences of one-character strings, and     *)
(* every filesystem operation is built from the backend calls the code     *)
(* makes (head, list, conditional write, copy, conditional delete).        *)
(***************************************************************************)
EXTENDS Integers, Sequences, FiniteSets, TLC

VARIABLES
    store,      \* the bucket: key -> object attributes
    nextGen,    \* the generation the backend assigns to the next write
    renameMode, \* the process-wide rename policy: 0 fail on non-empty, 1 recursive
    faults,     \* backend calls that have failed so far
    phase,      \* "idle", "running" or "done": where the current Rename call is
    args,       \* arguments of the current Rename call
    stack,      \* the active renameInternal invocations, innermost last
    ret,        \* what Rename returned: [n, size, err]
    store0,     \* the bucket when the current Rename call started
    removed,    \* keys this Rename call deleted
    copied,     \* the file copies this Rename call completed: [src, dst, size]
    wr,         \* per writer: the state of its Create call
    out,        \* the operation and result of the last listing call
    fs,         \* the GCSFs value: its key prefix and its mount path
    xfer,       \* per Open or Create call: its pipe, its context and its task
    sink,       \* the transfer events the metric package has received
    overlay     \* the metadata plugin: whether there is one, and what it holds

vars == <<store, nextGen, renameMode, faults, phase, args, stack, ret, store0,
          removed, copied, wr, out, fs, xfer, sink, overlay>>

-----------------------------------------------------------------------------
(* Strings: sequences of one-character strings, ordered by byte value.     *)

Ord(c) ==
    CASE c = "." -> 46 [] c = "/" -> 47
      [] c = "a" -> 97 [] c = "b" -> 98 [] c = "c" -> 99 [] c = "d" -> 100
      [] c = "e" -> 101 [] c = "f" -> 102 [] c = "g" -> 103 [] c = "t" -> 116 [] c = "x" -> 120
      [] c = "z" -> 122

RECURSIVE StrLess(_, _)
StrLess(s, t) ==
    IF t = <<>> THEN FALSE
    ELSE IF s = <<>> THEN TRUE
    ELSE IF Head(s) # Head(t) THEN Ord(Head(s)) < Ord(Head(t))
    ELSE StrLess(Tail(s), Tail(t))

HasPrefix(s, p) == Len(p) <= Len(s) /\ SubSeq(s, 1, Len(p)) = p

HasSuffix(s, p) == Len(p) <= Len(s) /\ SubSeq(s, Len(s) - Len(p) + 1, Len(s)) = p

TrimPrefix(s, p) == IF HasPrefix(s, p) THEN SubSeq(s, Len(p) + 1, Len(s)) ELSE s

TrimSuffix(s, p) == IF HasSuffix(s, p) THEN SubSeq(s, 1, Len(s) - Len(p)) ELSE s

Slash == <<"/">>

\* the index of the first "/" of s, 0 when there is none
RECURSIVE IndexSlash(_, _)
IndexSlash(s, i) ==
    IF i > Len(s) THEN 0
    ELSE IF s[i] = "/" THEN i
    ELSE IndexSlash(s, i + 1)

\* the index of the last c of s, 0 when there is none
RECURSIVE LastIndex(_, _, _)
LastIndex(s, c, i) ==
    IF i = 0 THEN 0
    ELSE IF s[i] = c THEN i
    ELSE LastIndex(s, c, i - 1)

\* the "/"-separated elements of s, empty ones included
RECURSIVE Split(_)
Split(s) ==
    LET i == IndexSlash(s, 1) IN
    IF i = 0 THEN <<s>>
    ELSE <<SubSeq(s, 1, i - 1)>> \o Split(SubSeq(s, i + 1, Len(s)))

RECURSIVE JoinSegs(_)
JoinSegs(segs) ==
    IF segs = <<>> THEN <<>>
    ELSE IF Len(segs) = 1 THEN segs[1]
    ELSE segs[1] \o Slash \o JoinSegs(Tail(segs))

Dot == <<".">>
DotDot == <<".", ".">>

\* path.Clean on the elements of a path: "" and "." are dropped, ".." removes
\* the element before it (at the root it is dropped, in a relative path kept)
RECURSIVE CleanSegs(_, _, _)
CleanSegs(segs, acc, rooted) ==
    IF segs = <<>> THEN acc
    ELSE LET e == Head(segs) IN
         IF e = <<>> \/ e = Dot THEN CleanSegs(Tail(segs), acc, rooted)
         ELSE IF e = DotDot
              THEN IF acc # <<>> /\ acc[Len(acc)] # DotDot
                   THEN CleanSegs(Tail(segs), SubSeq(acc, 1, Len(acc) - 1), rooted)
                   ELSE IF rooted THEN CleanSegs(Tail(segs), acc, rooted)
                   ELSE CleanSegs(Tail(segs), Append(acc, e), rooted)
         ELSE CleanSegs(Tail(segs), Append(acc, e), rooted)

IsAbs(p) == p # <<>> /\ p[1] = "/"

PathClean(p) ==
    IF p = <<>> THEN Dot
    ELSE LET body == JoinSegs(CleanSegs(Split(p), <<>>, IsAbs(p)))
             r == IF IsAbs(p) THEN Slash \o body ELSE body
         IN IF r = <<>> THEN Dot ELSE r

\* path.Join of two elements: empty elements are ignored, the rest is cleaned
PathJoin(a, b) ==
    IF a = <<>> /\ b = <<>> THEN <<>>
    ELSE IF a = <<>> THEN PathClean(b)
    ELSE IF b = <<>> THEN PathClean(a)
    ELSE PathClean(a \o Slash \o b)

\* path.Base: the last element of the path, trailing slashes removed
RECURSIVE StripSlashes(_)
StripSlashes(p) ==
    IF p # <<>> /\ p[Len(p)] = "/" THEN StripSlashes(SubSeq(p, 1, Len(p) - 1)) ELSE p

PathBase(p) ==
    IF p = <<>> THEN Dot
    ELSE LET q == StripSlashes(p)
             i == LastIndex(q, "/", Len(q))
         IN IF q = <<>> THEN Slash ELSE SubSeq(q, i + 1, Len(q))

\* path.Ext: the suffix of the last element starting at its last "."
PathExt(p) ==
    LET d == LastIndex(p, ".", Len(p))
        s == LastIndex(p, "/", Len(p))
    IN IF d > s THEN SubSeq(p, d, Len(p)) ELSE <<>>

\* mime.TypeByExtension: "" for an extension the table does not know
TypeByExtension(ext) ==
    IF ext = <<".", "t", "x", "t">> THEN "text/plain" ELSE ""

-----------------------------------------------------------------------------
(* Errors. The nil error is "nil"; the others are the values the storage   *)
(* client and the filesystem return.                                        *)

Nil == "nil"
ErrObjectNotExist == "storage.ErrObjectNotExist"
ErrBucketNotExist == "storage.ErrBucketNotExist"
ErrApi404 == "googleapi 404"
ErrApi412 == "googleapi 412"
ErrApi500 == "googleapi 500"
ErrNonEmptyRename == "cannot rename non empty directory"
ErrNonEmptyRemove == "cannot remove non empty directory"

IsNotExist(err) ==
    IF err = Nil THEN FALSE
    ELSE IF err = ErrObjectNotExist \/ err = ErrBucketNotExist THEN TRUE
    ELSE err = ErrApi404

-----------------------------------------------------------------------------
(* The bucket and the backend calls.                                        *)

dirMimeType == "inode/directory"

NoObject == [found |-> FALSE]

Obj(size, ctype, content, gen, deleted) ==
    [Size |-> size, ContentType |-> ctype, ContentEncoding |-> "",
     content |-> content, Generation |-> gen, Deleted |-> deleted]

Live(st, k) == k \in DOMAIN st /\ ~st[k].Deleted

Put(st, k, o) == [x \in DOMAIN st \cup {k} |-> IF x = k THEN o ELSE st[x]]

Del(st, k) == [x \in DOMAIN st \ {k} |-> st[x]]

\* obj.Attrs: the attributes of a live object, or ErrObjectNotExist;
\* fail: the call itself fails
headObject(st, name, fail) ==
    IF fail THEN [err |-> ErrApi500, attrs |-> NoObject]
    ELSE IF Live(st, name)
    THEN [err |-> Nil,
          attrs |-> [Name |-> name, Size |-> st[name].Size,
                     ContentType |-> st[name].ContentType,
                     Generation |-> st[name].Generation]]
    ELSE [err |-> ErrObjectNotExist, attrs |-> NoObject]

\* the conditions a write, copy or delete carries
NoCond == [kind |-> "none", gen |-> 0]
DoesNotExist == [kind |-> "DoesNotExist", gen |-> 0]
GenerationMatch(g) == [kind |-> "GenerationMatch", gen |-> g]

CondHolds(st, k, cond) ==
    CASE cond.kind = "none" -> TRUE
      [] cond.kind = "DoesNotExist" -> ~Live(st, k)
      [] cond.kind = "GenerationMatch" -> Live(st, k) /\ st[k].Generation = cond.gen

\* CondFromHead with no generation precondition for an object that exists
CondFromHeadNoGeneration(h) ==
    IF h.err = Nil THEN NoCond
    ELSE IF IsNotExist(h.err) THEN DoesNotExist
    ELSE NoCond

\* the precondition Create and copyFileInternal derive from a head result
CondFromHead(h) ==
    IF h.err = Nil THEN GenerationMatch(h.attrs.Generation)
    ELSE IF IsNotExist(h.err) THEN DoesNotExist
    ELSE NoCond

\* obj.Delete under a condition
DeleteObject(st, k, cond, fail) ==
    IF fail THEN [err |-> ErrApi500, store |-> st]
    ELSE IF ~Live(st, k) THEN [err |-> ErrObjectNotExist, store |-> st]
    ELSE IF ~CondHolds(st, k, cond) THEN [err |-> ErrApi412, store |-> st]
    ELSE [err |-> Nil, store |-> Del(st, k)]

\* the listing the backend returns for a prefix, in key order; with a
\* delimiter the keys that hold a "/" after the prefix collapse to prefixes
Rollup(k, prefix) ==
    LET rest == TrimPrefix(k, prefix)
        i == IndexSlash(rest, 1)
    IN IF i = 0 THEN <<>> ELSE prefix \o SubSeq(rest, 1, i)

RECURSIVE SortKeys(_)
SortKeys(S) ==
    IF S = {} THEN <<>>
    ELSE LET m == CHOOSE x \in S : \A y \in S \ {x} : StrLess(x, y)
         IN <<m>> \o SortKeys(S \ {m})

ObjectEntry(st, k) ==
    [Name |-> k, Prefix |-> <<>>, Size |-> st[k].Size,
     ContentType |-> st[k].ContentType, Deleted |-> st[k].Deleted]

PrefixEntry(p) ==
    [Name |-> <<>>, Prefix |-> p, Size |-> 0, ContentType |-> "", Deleted |-> FALSE]

\* one page of the listing as the client's iterator yields it: the objects
\* of the page first, then its prefixes
PageItems(st, names, prefix, delim) ==
    LET isObj(k) == ~delim \/ Rollup(k, prefix) = <<>>
        objs == SelectSeq(names, LAMBDA k : k \in DOMAIN st /\ HasPrefix(k, prefix) /\ isObj(k))
        prefs == SelectSeq(names, LAMBDA k : ~(k \in DOMAIN st /\ HasPrefix(k, prefix) /\ isObj(k)))
    IN [i \in 1..Len(objs) |-> ObjectEntry(st, objs[i])]
       \o [i \in 1..Len(prefs) |-> PrefixEntry(prefs[i])]

RECURSIVE Chunks(_, _)
Chunks(s, n) ==
    IF Len(s) <= n THEN <<s>>
    ELSE <<SubSeq(s, 1, n)>> \o Chunks(SubSeq(s, n + 1, Len(s)), n)

\* bkt.Objects + iterator.NewPager(it, pageSize, ""): the pages of the listing
ListPages(st, prefix, delim, pageSize) ==
    LET match == {k \in DOMAIN st : HasPrefix(k, prefix)}
        objs == IF delim THEN {k \in match : Rollup(k, prefix) = <<>>} ELSE match
        prefs == IF delim THEN {Rollup(k, prefix) : k \in match} \ {<<>>} ELSE {}
        names == SortKeys(objs \cup prefs)
        chunks == Chunks(names, pageSize)
    IN [i \in 1..Len(chunks) |-> PageItems(st, chunks[i], prefix, delim)]

-----------------------------------------------------------------------------
(* The filesystem's helpers.                                                *)

\* the page size of the listings, standing for defaultGCSPageSize (5000) and
\* scaled down so that a listing of a small bucket spans several pages
PageSize == 2

hasContentsPageSize == 2

FaultNone == "none"

getPrefix(name) ==
    IF name # <<>> /\ name # Dot /\ name # Slash
    THEN LET prefix == TrimPrefix(name, Slash)
         IN IF ~HasSuffix(prefix, Slash) THEN prefix \o Slash ELSE prefix
    ELSE <<>>

resolve(name, prefix, contentType) ==
    LET result == TrimPrefix(name, prefix)
        isDir == HasSuffix(result, Slash)
    IN [name |-> IF isDir THEN TrimSuffix(result, Slash) ELSE result,
        isDir |-> isDir \/ contentType = dirMimeType]

FsJoin(a, b) == TrimPrefix(PathJoin(a, b), Slash)

NewFileInfo(name, isDirectory, sizeInBytes) ==
    [name |-> PathBase(name), isDir |-> isDirectory, size |-> sizeInBytes]

NoInfo == [name |-> <<>>, isDir |-> FALSE, size |-> 0]

\* a GCSFs with no key prefix and no mount path
RootFs == [KeyPrefix |-> <<>>, mountPath |-> <<>>]

\* plugin.Handler when no metadata plugin is configured
NoOverlay == [HasMetadater |-> FALSE, modTimes |-> <<>>, fails |-> FALSE]

\* f = "list": the listing call fails
hasContents(st, name, f) ==
    LET prefix == getPrefix(name)
        objects == ListPages(st, prefix, FALSE, hasContentsPageSize)[1]
        counts(attrs) ==
            LET n == resolve(attrs.Name, prefix, attrs.ContentType).name
            IN ~(n = Slash \/ n = <<>>)
    IN IF f = "list" THEN [result |-> FALSE, err |-> ErrApi500]
       ELSE [result |-> \E i \in 1..Len(objects) : counts(objects[i]),
             err |-> Nil]

\* f = "head", "list", "head2": that backend call fails
getObjectStat(st, name, f) ==
    LET h == headObject(st, name, f = "head")
        hc == hasContents(st, name, f)
        h2 == headObject(st, name \o Slash, f = "head2")
    IN IF h.err = Nil
       THEN [err |-> Nil,
             info |-> NewFileInfo(name,
                         h.attrs.ContentType = dirMimeType \/ HasSuffix(h.attrs.Name, Slash),
                         h.attrs.Size)]
       ELSE IF ~IsNotExist(h.err) THEN [err |-> h.err, info |-> NoInfo]
       ELSE IF hc.err # Nil THEN [err |-> hc.err, info |-> NoInfo]
       ELSE IF hc.result THEN [err |-> Nil, info |-> NewFileInfo(name, TRUE, 0)]
       ELSE IF h2.err # Nil THEN [err |-> h2.err, info |-> NoInfo]
       ELSE [err |-> Nil, info |-> NewFileInfo(name, TRUE, h2.attrs.Size)]

\* ReadDirLoop that does not look a prefix up among the names already seen
RECURSIVE ReadDirLoopNoLookup(_, _, _, _)
ReadDirLoopNoLookup(objects, prefix, result, prefixes) ==
    IF objects = <<>> THEN result
    ELSE
      LET attrs == Head(objects)
          rest == Tail(objects)
      IN IF attrs.Prefix # <<>>
         THEN LET name == resolve(attrs.Prefix, prefix, attrs.ContentType).name
              IN IF name = <<>>
                 THEN ReadDirLoopNoLookup(rest, prefix, result, prefixes)
                 ELSE ReadDirLoopNoLookup(rest, prefix,
                                  Append(result, NewFileInfo(name, TRUE, 0)),
                                  prefixes \cup {name})
         ELSE LET r == resolve(attrs.Name, prefix, attrs.ContentType)
              IN IF r.name = <<>> \/ attrs.Deleted
                    \/ (r.isDir /\ r.name \in prefixes)
                 THEN ReadDirLoopNoLookup(rest, prefix, result, prefixes)
                 ELSE ReadDirLoopNoLookup(rest, prefix,
                                  Append(result, NewFileInfo(r.name, r.isDir, attrs.Size)),
                                  IF r.isDir THEN prefixes \cup {r.name} ELSE prefixes)

\* the loop body of ReadDir over the entries of the pages read so far
RECURSIVE ReadDirLoop(_, _, _, _)
ReadDirLoop(objects, prefix, result, prefixes) ==
    IF objects = <<>> THEN result
    ELSE
      LET attrs == Head(objects)
          rest == Tail(objects)
      IN IF attrs.Prefix # <<>>
         THEN LET name == resolve(attrs.Prefix, prefix, attrs.ContentType).name
              IN IF name = <<>> \/ name \in prefixes
                 THEN ReadDirLoop(rest, prefix, result, prefixes)
                 ELSE ReadDirLoop(rest, prefix,
                                  Append(result, NewFileInfo(name, TRUE, 0)),
                                  prefixes \cup {name})
         ELSE LET r == resolve(attrs.Name, prefix, attrs.ContentType)
              IN IF r.name = <<>> \/ attrs.Deleted
                    \/ (r.isDir /\ r.name \in prefixes)
                 THEN ReadDirLoop(rest, prefix, result, prefixes)
                 ELSE ReadDirLoop(rest, prefix,
                                  Append(result, NewFileInfo(r.name, r.isDir, attrs.Size)),
                                  IF r.isDir THEN prefixes \cup {r.name} ELSE prefixes)

RECURSIVE Flatten(_, _)
Flatten(pages, n) ==
    IF n = 0 THEN <<>> ELSE Flatten(pages, n - 1) \o pages[n]

\* failPage = j > 0: the j-th NextPage call fails (when there is one)
ReadDir(st, dirname, failPage) ==
    LET prefix == getPrefix(dirname)
        pages == ListPages(st, prefix, TRUE, PageSize)
        failed == failPage \in 1..Len(pages)
        read == IF failed THEN failPage - 1 ELSE Len(pages)
    IN [result |-> ReadDirLoop(Flatten(pages, read), prefix, <<>>, {}),
        err |-> IF failed THEN ErrApi500 ELSE Nil]

\* GetDirSizeLoop that counts the directory markers too
RECURSIVE GetDirSizeLoopCountsMarkers(_, _, _)
GetDirSizeLoopCountsMarkers(objects, numFiles, size) ==
    IF objects = <<>> THEN [numFiles |-> numFiles, size |-> size]
    ELSE
      LET attrs == Head(objects)
      IN IF attrs.Deleted
         THEN GetDirSizeLoopCountsMarkers(Tail(objects), numFiles, size)
         ELSE GetDirSizeLoopCountsMarkers(Tail(objects), numFiles + 1, size + attrs.Size)

\* the loop body of GetDirSize over the entries of the pages read so far
RECURSIVE GetDirSizeLoop(_, _, _)
GetDirSizeLoop(objects, numFiles, size) ==
    IF objects = <<>> THEN [numFiles |-> numFiles, size |-> size]
    ELSE
      LET attrs == Head(objects)
          isDir == HasSuffix(attrs.Name, Slash) \/ attrs.ContentType = dirMimeType
      IN IF attrs.Deleted \/ (isDir /\ attrs.Size = 0)
         THEN GetDirSizeLoop(Tail(objects), numFiles, size)
         ELSE GetDirSizeLoop(Tail(objects), numFiles + 1, size + attrs.Size)

GetDirSize(st, dirname, failPage) ==
    LET prefix == getPrefix(dirname)
        pages == ListPages(st, prefix, FALSE, PageSize)
        failed == failPage \in 1..Len(pages)
        read == IF failed THEN failPage - 1 ELSE Len(pages)
        r == GetDirSizeLoop(Flatten(pages, read), 0, 0)
    IN [numFiles |-> r.numFiles, size |-> r.size,
        err |-> IF failed THEN ErrApi500 ELSE Nil]

-----------------------------------------------------------------------------
(* Writes, copies and deletes.                                              *)

\* CreateCond with no precondition for a directory marker
CreateCondMarkerUnconditional(st, name, flag, headFails) ==
    IF flag = -1 THEN NoCond
    ELSE CondFromHead(headObject(st, name, headFails))

\* the precondition Create puts on the upload: flag -1 is a directory marker
CreateCond(st, name, flag, headFails) ==
    IF flag = -1 THEN DoesNotExist
    ELSE CondFromHead(headObject(st, name, headFails))

\* the content type Create gives the object
CreateContentType(name, flag) ==
    IF flag = -1 THEN dirMimeType ELSE TypeByExtension(PathExt(name))

\* objectWriter.Close: the upload commits when its precondition holds
CommitUpload(st, name, cond, size, ctype, content, gen, fail) ==
    IF fail THEN [err |-> ErrApi500, store |-> st]
    ELSE IF ~CondHolds(st, name, cond) THEN [err |-> ErrApi412, store |-> st]
    ELSE [err |-> Nil, store |-> Put(st, name, Obj(size, ctype, content, gen, FALSE))]

\* mkdirInternal: Create(name + "/", -1) and the Close that waits for the
\* upload; f = "pipe": the local pipe cannot be made, f = "upload": the upload fails
mkdirInternal(st, name, gen, f) ==
    LET key == IF ~HasSuffix(name, Slash) THEN name \o Slash ELSE name
    IN IF f = "pipe" THEN [err |-> "pipe error", store |-> st]
       ELSE CommitUpload(st, key, CreateCond(st, key, -1, FALSE), 0,
                         CreateContentType(key, -1), "marker", gen, f = "upload")

\* copyFileInternal with the error of the copy dropped
copyFileInternalErrDropped(st, source, target, gen, f) ==
    LET cond == CondFromHead(headObject(st, target, f = "head"))
        contentType == TypeByExtension(PathExt(source))
    IN IF f = "copy" \/ ~Live(st, source) \/ ~CondHolds(st, target, cond)
       THEN [err |-> Nil, store |-> st]
       ELSE [err |-> Nil,
             store |-> Put(st, target,
                           Obj(st[source].Size,
                               IF contentType # "" THEN contentType
                               ELSE st[source].ContentType,
                               st[source].content, gen, FALSE))]

\* f = "head": the head of the target fails, f = "copy": the copy fails
copyFileInternal(st, source, target, gen, f) ==
    LET cond == CondFromHead(headObject(st, target, f = "head"))
        contentType == TypeByExtension(PathExt(source))
    IN IF f = "copy" THEN [err |-> ErrApi500, store |-> st]
       ELSE IF ~Live(st, source) THEN [err |-> ErrApi404, store |-> st]
       ELSE IF ~CondHolds(st, target, cond) THEN [err |-> ErrApi412, store |-> st]
       ELSE [err |-> Nil,
             store |-> Put(st, target,
                           Obj(st[source].Size,
                               IF contentType # "" THEN contentType
                               ELSE st[source].ContentType,
                               st[source].content, gen, FALSE))]

\* Remove without the second delete for markers that have no trailing slash
RemoveNoLegacy(st, name, isDir, f) ==
    LET hc == hasContents(st, name, f)
        key == IF isDir /\ ~HasSuffix(name, Slash) THEN name \o Slash ELSE name
        h == headObject(st, key, f = "head")
        cond == IF h.err = Nil THEN GenerationMatch(h.attrs.Generation) ELSE NoCond
        d == DeleteObject(st, key, cond, f = "delete")
    IN IF isDir /\ hc.err # Nil THEN [err |-> hc.err, store |-> st]
       ELSE IF isDir /\ hc.result THEN [err |-> ErrNonEmptyRemove, store |-> st]
       ELSE d

\* f = "list", "head", "delete", "delete2": that backend call fails
Remove(st, name, isDir, f) ==
    LET hc == hasContents(st, name, f)
        key == IF isDir /\ ~HasSuffix(name, Slash) THEN name \o Slash ELSE name
        h == headObject(st, key, f = "head")
        cond == IF h.err = Nil THEN GenerationMatch(h.attrs.Generation) ELSE NoCond
        d == DeleteObject(st, key, cond, f = "delete")
        d2 == DeleteObject(d.store, TrimSuffix(key, Slash), NoCond, f = "delete2")
    IN IF isDir /\ hc.err # Nil THEN [err |-> hc.err, store |-> st]
       ELSE IF isDir /\ hc.result THEN [err |-> ErrNonEmptyRemove, store |-> st]
       ELSE IF isDir /\ IsNotExist(d.err) THEN d2
       ELSE d

-----------------------------------------------------------------------------
(* Rename: Rename calls renameInternal, which calls itself for every entry  *)
(* of a directory. Each invocation is a frame of the stack and each of its  *)
(* calls into the backend (check, mkdir, list, copy, remove) is one step.   *)

\* the backend calls that may fail in one behaviour
MaxFaults == 1

\* the keys of the buckets a Rename starts from
kB == <<"a", "/", "b", ".", "t", "x", "t">>
kD == <<"a", "/", "c", "/", "d", ".", "t", "x", "t">>
kF == <<"a", "/", "c", "/", "e", "/", "f">>
kCm == <<"a", "/", "c", "/">>
kCl == <<"a", "/", "c">>
kCs == <<"a", "/", "c", "/", "/">>
kTm == <<"a", "/", "c", "c", "/">>

pA == <<"a">>
pC == <<"a", "/", "c">>
pCC == <<"a", "/", "c", "c">>
pZ == <<"z">>
pX == <<"a", "/", "x">>

\* the objects a bucket may hold: files, directory markers with and without
\* the trailing slash, and a key with an empty path element
Universe ==
    (kB :> Obj(10, "text/plain", "b", 1, FALSE))
    @@ (kD :> Obj(5, "text/plain", "d", 2, FALSE))
    @@ (kF :> Obj(3, "", "f", 3, FALSE))
    @@ (kCm :> Obj(0, dirMimeType, "marker", 4, FALSE))
    @@ (kCl :> Obj(0, dirMimeType, "marker", 5, FALSE))
    @@ (kCs :> Obj(0, "", "s", 6, FALSE))
    @@ (kTm :> Obj(0, dirMimeType, "marker", 7, FALSE))

FirstGen == Cardinality(DOMAIN Universe) + 1

Buckets == {[k \in K |-> Universe[k]] : K \in SUBSET DOMAIN Universe}

RenameCalls ==
    {<<pC, pCC>>, <<pA, pZ>>, <<kB, pX>>, <<pC, pC>>}

\* the nested invocations of renameInternal the model follows
MaxDepth == 6

\* calls of Rename with the target beneath the source
RenameIntoCalls == {<<pA, pX>>}

NoRet == [n |-> 0, size |-> 0, err |-> "none"]

NoArgs == [source |-> <<>>, target |-> <<>>, entered |-> FALSE, isDir |-> FALSE]

Frame(source, target, fi) ==
    [source |-> source, target |-> target, isDir |-> fi.isDir, size |-> fi.size,
     pc |-> IF fi.isDir THEN (IF renameMode = 0 THEN "check" ELSE "mkdir") ELSE "copy",
     entries |-> <<>>, numFiles |-> 0, filesSize |-> 0, err |-> Nil]

Top == stack[Len(stack)]

SetTop(f) == [stack EXCEPT ![Len(stack)] = f]

Returning(f, err) == [f EXCEPT !.pc = "ret", !.err = err]

CanFail(f) == f = FaultNone \/ faults < MaxFaults

Count(f) == faults + (IF f = FaultNone THEN 0 ELSE 1)

IdleLists == [op |-> "none"]

InitRename ==
    /\ store \in Buckets
    /\ nextGen = FirstGen
    /\ renameMode \in {0, 1}
    /\ faults = 0
    /\ phase = "idle"
    /\ args = NoArgs
    /\ stack = <<>>
    /\ ret = NoRet
    /\ store0 = store
    /\ removed = {}
    /\ copied = <<>>
    /\ wr = <<>>
    /\ out = IdleLists
    /\ fs = RootFs
    /\ xfer = <<>>
    /\ sink = <<>>
    /\ overlay = NoOverlay

\* Rename that takes no name for its own target
renameOntoItselfNever(source, target) == FALSE

\* the test Rename starts with (227)
renameOntoItself(source, target) == source = target

\* Rename(source, target) up to its call of renameInternal
RenameCall(source, target) ==
    /\ phase = "idle"
    /\ UNCHANGED <<fs, xfer, sink, overlay, store, nextGen, renameMode, store0, removed, copied, wr, out>>
    /\ IF renameOntoItself(source, target)
       THEN /\ ret' = [n |-> -1, size |-> -1, err |-> Nil]
            /\ phase' = "done"
            /\ args' = [NoArgs EXCEPT !.source = source, !.target = target]
            /\ UNCHANGED <<stack, faults>>
       ELSE \E f \in {FaultNone, "head", "list", "head2"} :
              LET s == getObjectStat(store, source, f) IN
              /\ CanFail(f)
              /\ faults' = Count(f)
              /\ IF s.err # Nil
                 THEN /\ ret' = [n |-> -1, size |-> -1, err |-> s.err]
                      /\ phase' = "done"
                      /\ args' = [NoArgs EXCEPT !.source = source, !.target = target]
                      /\ UNCHANGED stack
                 ELSE /\ stack' = <<Frame(source, target, s.info)>>
                      /\ phase' = "running"
                      /\ args' = [source |-> source, target |-> target,
                                  entered |-> TRUE, isDir |-> s.info.isDir]
                      /\ UNCHANGED ret

\* renameInternal, directory, renameMode 0: the hasContents check
StepCheck ==
    /\ phase = "running" /\ Top.pc = "check"
    /\ \E f \in {FaultNone, "list"} :
         LET hc == hasContents(store, Top.source, f) IN
         /\ CanFail(f)
         /\ faults' = Count(f)
         /\ stack' = SetTop(IF hc.err # Nil THEN Returning(Top, hc.err)
                            ELSE IF hc.result THEN Returning(Top, ErrNonEmptyRename)
                            ELSE [Top EXCEPT !.pc = "mkdir"])
    /\ UNCHANGED <<fs, xfer, sink, overlay, store, nextGen, renameMode, phase, args, ret, store0, removed,
                   copied, wr, out>>

\* renameInternal, directory: mkdirInternal(target)
StepMkdir ==
    /\ phase = "running" /\ Top.pc = "mkdir"
    /\ \E f \in {FaultNone, "pipe", "upload"} :
         LET r == mkdirInternal(store, Top.target, nextGen, f) IN
         /\ CanFail(f)
         /\ faults' = Count(f)
         /\ store' = r.store
         /\ nextGen' = IF r.err = Nil THEN nextGen + 1 ELSE nextGen
         /\ stack' = SetTop(IF r.err # Nil THEN Returning(Top, r.err)
                            ELSE [Top EXCEPT !.pc = IF renameMode = 1 THEN "list"
                                                    ELSE "remove"])
    /\ UNCHANGED <<fs, xfer, sink, overlay, renameMode, phase, args, ret, store0, removed, copied, wr, out>>

\* renameInternal, directory, renameMode 1: ReadDir(source)
StepList ==
    /\ phase = "running" /\ Top.pc = "list"
    /\ \E failPage \in 0..Len(ListPages(store, getPrefix(Top.source), TRUE, PageSize)) :
         LET rd == ReadDir(store, Top.source, failPage) IN
         /\ failPage = 0 \/ faults < MaxFaults
         /\ faults' = faults + (IF failPage = 0 THEN 0 ELSE 1)
         /\ stack' = SetTop(IF rd.err # Nil THEN Returning(Top, rd.err)
                            ELSE [Top EXCEPT !.pc = "loop", !.entries = rd.result])
    /\ UNCHANGED <<fs, xfer, sink, overlay, store, nextGen, renameMode, phase, args, ret, store0, removed,
                   copied, wr, out>>

\* renameInternal, directory, renameMode 1: the next entry, or the end of the loop
StepLoop ==
    /\ phase = "running" /\ Top.pc = "loop"
    /\ IF Top.entries = <<>>
       THEN stack' = SetTop([Top EXCEPT !.pc = "remove"])
       ELSE LET info == Head(Top.entries) IN
            /\ Len(stack) < MaxDepth
            /\ stack' = Append(SetTop([Top EXCEPT !.entries = Tail(Top.entries)]),
                            Frame(FsJoin(Top.source, info.name),
                                  FsJoin(Top.target, info.name), info))
    /\ UNCHANGED <<fs, xfer, sink, overlay, store, nextGen, renameMode, faults, phase, args, ret, store0,
                   removed, copied, wr, out>>

\* renameInternal, file: copyFileInternal(source, target) and the counters
StepCopy ==
    /\ phase = "running" /\ Top.pc = "copy"
    /\ \E f \in {FaultNone, "head", "copy"} :
         LET r == copyFileInternal(store, Top.source, Top.target, nextGen, f) IN
         /\ CanFail(f)
         /\ faults' = Count(f)
         /\ store' = r.store
         /\ nextGen' = IF r.err = Nil THEN nextGen + 1 ELSE nextGen
         /\ copied' = IF r.err = Nil
                      THEN Append(copied, [src |-> Top.source, dst |-> Top.target,
                                           size |-> store[Top.source].Size])
                      ELSE copied
         /\ stack' = SetTop(IF r.err # Nil THEN Returning(Top, r.err)
                            ELSE [Top EXCEPT !.pc = "remove",
                                             !.numFiles = Top.numFiles + 1,
                                             !.filesSize = Top.filesSize + Top.size])
    /\ UNCHANGED <<fs, xfer, sink, overlay, renameMode, phase, args, ret, store0, removed, wr, out>>

\* renameInternal: Remove(source, fi.IsDir()), a not-found error dropped
StepRemove ==
    /\ phase = "running" /\ Top.pc = "remove"
    /\ \E f \in IF Top.isDir THEN {FaultNone, "list", "head", "delete", "delete2"}
                ELSE {FaultNone, "head", "delete"} :
         LET r == Remove(store, Top.source, Top.isDir, f) IN
         /\ CanFail(f)
         /\ faults' = Count(f)
         /\ store' = r.store
         /\ removed' = removed \cup (DOMAIN store \ DOMAIN r.store)
         /\ stack' = SetTop(Returning(Top, IF IsNotExist(r.err) THEN Nil ELSE r.err))
    /\ UNCHANGED <<fs, xfer, sink, overlay, nextGen, renameMode, phase, args, ret, store0, copied, wr, out>>

\* AfterChild with the sizes of the children not added
AfterChildNoSize(parent, child) ==
    IF child.err # Nil THEN Returning(parent, child.err)
    ELSE [parent EXCEPT !.numFiles = parent.numFiles + child.numFiles]

\* what the caller does with the counts and the error of a finished
\* renameInternal invocation
AfterChild(parent, child) ==
    IF child.err # Nil THEN Returning(parent, child.err)
    ELSE [parent EXCEPT !.numFiles = parent.numFiles + child.numFiles,
                        !.filesSize = parent.filesSize + child.filesSize]

\* renameInternal returns, to the invocation that called it or to Rename
StepReturn ==
    /\ phase = "running" /\ Top.pc = "ret"
    /\ IF Len(stack) = 1
       THEN /\ ret' = [n |-> Top.numFiles, size |-> Top.filesSize, err |-> Top.err]
            /\ stack' = <<>>
            /\ phase' = "done"
       ELSE /\ stack' = [SubSeq(stack, 1, Len(stack) - 1)
                           EXCEPT ![Len(stack) - 1] = AfterChild(stack[Len(stack) - 1], Top)]
            /\ UNCHANGED <<ret, phase>>
    /\ UNCHANGED <<fs, xfer, sink, overlay, store, nextGen, renameMode, faults, args, store0, removed,
                   copied, wr, out>>

NextRename ==
    \/ \E c \in RenameCalls : RenameCall(c[1], c[2])
    \/ StepCheck
    \/ StepMkdir
    \/ StepList
    \/ StepLoop
    \/ StepCopy
    \/ StepRemove
    \/ StepReturn

SpecRename == InitRename /\ [][NextRename]_vars

-----------------------------------------------------------------------------
(* Properties of Rename.                                                    *)

SrcPrefix == getPrefix(args.source)

IsFileObject(st, k) == ~HasSuffix(k, Slash) /\ st[k].ContentType # dirMimeType

\* the files beneath the source directory when Rename was called
DescFiles ==
    {k \in DOMAIN store0 : HasPrefix(k, SrcPrefix) /\ k # SrcPrefix /\ IsFileObject(store0, k)}

\* the files the call has to move
SourceFiles == IF args.isDir THEN DescFiles ELSE {args.source}

\* the key a source file is moved to
Dest(k) ==
    IF args.isDir THEN args.target \o Slash \o TrimPrefix(k, SrcPrefix) ELSE args.target

\* the marker of the target directory a source directory marker corresponds to
DestMarker(k) ==
    args.target \o TrimPrefix(TrimSuffix(k, Slash), args.source) \o Slash

\* something other than the marker lies beneath the source directory
HasBeneath == \E k \in DOMAIN store0 : HasPrefix(k, SrcPrefix) /\ k # SrcPrefix

RECURSIVE SumSizes(_)
SumSizes(log) == IF log = <<>> THEN 0 ELSE Head(log).size + SumSizes(Tail(log))

CopiesOf(k) == {i \in 1..Len(copied) : copied[i].src = k}

\* no key of the bucket has an empty path element
PlainKeys ==
    \A k \in DOMAIN store0 : \A i \in 1..(Len(k) - 1) : ~(k[i] = "/" /\ k[i + 1] = "/")

C2_FailModeNonEmpty ==
    (phase = "done" /\ renameMode = 0 /\ args.entered /\ args.isDir /\ faults = 0
       /\ HasBeneath /\ DescFiles # {} /\ ~Live(store0, args.target \o Slash))
    => (ret.err = ErrNonEmptyRename /\ store = store0)

\* C3: a successful recursive rename of a non-empty directory moves every
\* descendant file exactly once (source key absent, target key with the same
\* content and size), and returns the number and summed size of the files copied
C3_RecursiveMovesAll ==
    (phase = "done" /\ renameMode = 1 /\ args.entered /\ args.isDir /\ ret.err = Nil
       /\ HasBeneath)
    => /\ \A k \in DescFiles :
            /\ ~Live(store, k)
            /\ Live(store, Dest(k))
            /\ store[Dest(k)].content = store0[k].content
            /\ store[Dest(k)].Size = store0[k].Size
            /\ Cardinality(CopiesOf(k)) = 1
       /\ ret.n = Len(copied)
       /\ ret.size = SumSizes(copied)
       /\ ret.n = Cardinality(DescFiles)

C3_Witness ==
    /\ phase = "done" /\ renameMode = 1 /\ args.isDir /\ ret.err = Nil
    /\ args.source = pA
    /\ {kB, kD, kF} \subseteq DescFiles
    /\ ret.n = 3

\* C4: a recursive rename that fails partway returns, with the error, the
\* number and size of all the files copied before the failure
C4_PartialCounts ==
    (phase = "done" /\ renameMode = 1 /\ args.entered /\ args.isDir /\ ret.err # Nil)
    => (ret.n = Len(copied) /\ ret.size = SumSizes(copied))

EmptyMarkedSource ==
    /\ ~HasBeneath
    /\ (Live(store0, SrcPrefix) /\ ~Live(store0, args.source))
       \/ (~Live(store0, SrcPrefix) /\ Live(store0, args.source))

\* C7: in fail mode and with no backend failure, renaming an empty directory
\* (one marker, with or without the trailing slash, nothing beneath it) to a
\* target that has no marker succeeds; afterwards the target marker exists,
\* no source marker is left in either form and Stat(source) reports not-found
C7_EmptyDirectoryRename ==
    (phase = "done" /\ renameMode = 0 /\ args.entered /\ args.isDir /\ faults = 0
       /\ EmptyMarkedSource /\ ~Live(store0, args.target \o Slash))
    => /\ ret.err = Nil
       /\ Live(store, args.target \o Slash)
       /\ ~Live(store, SrcPrefix)
       /\ ~Live(store, args.source)
       /\ IsNotExist(getObjectStat(store, args.source, FaultNone).err)

C7_Witness ==
    /\ phase = "done" /\ renameMode = 0 /\ args.isDir /\ faults = 0
    /\ EmptyMarkedSource /\ Live(store0, args.source)
    /\ ret.err = Nil /\ removed = {args.source}

Scenario == [k \in {kB, kD} |-> Universe[k]]

kCCd == <<"a", "/", "c", "c", "/", "d", ".", "t", "x", "t">>

\* C8: from a store holding a/b.txt (10 bytes) and a/c/d.txt (5 bytes),
\* Rename("a/c", "a/cc") in recursive mode returns (1, 5) and no error; no key
\* with prefix a/c/ is left, a/cc/d.txt exists with size 5, a/b.txt is unchanged
C8_Scenario ==
    (phase = "done" /\ store0 = Scenario /\ renameMode = 1 /\ faults = 0
       /\ args.source = pC /\ args.target = pCC)
    => /\ ret = [n |-> 1, size |-> 5, err |-> Nil]
       /\ \A k \in DOMAIN store : ~HasPrefix(k, kCm)
       /\ Live(store, kCCd) /\ store[kCCd].Size = 5
       /\ Live(store, kB) /\ store[kB] = store0[kB]

C8_Witness ==
    /\ phase = "done" /\ store0 = Scenario /\ renameMode = 1 /\ faults = 0
    /\ args.source = pC /\ args.target = pCC /\ args.entered
    /\ kCCd \in DOMAIN store

-----------------------------------------------------------------------------
(* Create: concurrent writers. Create derives the precondition of the       *)
(* upload and starts the upload task; the task copies the pipe into the     *)
(* upload stream, closes it (the upload commits under the precondition) and *)
(* delivers the error to the pipe and to PipeWriter.Done.                   *)

\* the writers that call Create concurrently
MaxWriters == 2

Writers == 1..MaxWriters

\* what a writer creates: a regular file or a directory marker
CreateCalls == {[name |-> kB, flag |-> 0], [name |-> kCm, flag |-> -1]}

IdleWriter ==
    [pc |-> "idle", name |-> <<>>, flag |-> 0, cond |-> NoCond, statErr |-> Nil,
     err |-> Nil, seen |-> 0, stale |-> FALSE, wrote |-> FALSE, failed |-> FALSE]

\* the generation of the live object at a key, 0 when there is none
GenOf(st, k) == IF Live(st, k) THEN st[k].Generation ELSE 0

InitCreate ==
    /\ store \in {[k \in K |-> Universe[k]] : K \in SUBSET {kB, kCm}}
    /\ nextGen = FirstGen
    /\ renameMode = 0
    /\ faults = 0
    /\ phase = "idle"
    /\ args = NoArgs
    /\ stack = <<>>
    /\ ret = NoRet
    /\ store0 = store
    /\ removed = {}
    /\ copied = <<>>
    /\ wr = [w \in Writers |-> IdleWriter]
    /\ out = IdleLists
    /\ fs = RootFs
    /\ xfer = <<>>
    /\ sink = <<>>
    /\ overlay = NoOverlay

\* Create(name, flag) up to its return: the pipe, the head call and the
\* precondition; f = "pipe": the pipe cannot be made, f = "head": the head fails
Create(w, name, flag) ==
    /\ wr[w].pc = "idle"
    /\ \E f \in {FaultNone, "pipe"} \cup (IF flag = -1 THEN {} ELSE {"head"}) :
         /\ CanFail(f)
         /\ faults' = Count(f)
         /\ wr' = [wr EXCEPT ![w] =
                     IF f = "pipe"
                     THEN [@ EXCEPT !.pc = "done", !.name = name, !.flag = flag,
                                    !.err = "pipe error"]
                     ELSE [@ EXCEPT !.pc = "streaming", !.name = name, !.flag = flag,
                                    !.cond = CreateCond(store, name, flag, f = "head"),
                                    !.statErr = IF flag = -1 THEN Nil
                                                ELSE headObject(store, name, f = "head").err,
                                    !.seen = GenOf(store, name)]]
    /\ UNCHANGED <<fs, xfer, sink, overlay, store, nextGen, renameMode, phase, args, stack, ret, store0,
                   removed, copied, out>>

\* the upload task of Create: io.Copy, objectWriter.Close, and the error
\* given to r.CloseWithError and p.Done; f = "upload": the upload fails
UploadTask(w) ==
    /\ wr[w].pc = "streaming"
    /\ \E f \in {FaultNone, "upload"} :
         LET r == CommitUpload(store, wr[w].name, wr[w].cond, 1,
                               CreateContentType(wr[w].name, wr[w].flag), ToString(w), nextGen,
                               f = "upload")
         IN /\ CanFail(f)
            /\ faults' = Count(f)
            /\ store' = r.store
            /\ nextGen' = IF r.err = Nil THEN nextGen + 1 ELSE nextGen
            /\ wr' = [wr EXCEPT ![w] =
                        [@ EXCEPT !.pc = "done", !.err = r.err,
                                  !.stale = GenOf(store, wr[w].name) # wr[w].seen,
                                  !.wrote = r.err = Nil,
                                  !.failed = f = "upload"]]
    /\ UNCHANGED <<fs, xfer, sink, overlay, renameMode, phase, args, stack, ret, store0, removed, copied, out>>

NextCreate ==
    \/ \E w \in Writers : \E c \in CreateCalls : Create(w, c.name, c.flag)
    \/ \E w \in Writers : UploadTask(w)

SpecCreate == InitCreate /\ [][NextCreate]_vars

\* C5 as claimed: no writer of a regular file overwrites an object that was
\* written after the writer's own existence check, whatever the head call returned
C5_NoSilentOverwrite ==
    \A w \in Writers :
        (wr[w].pc = "done" /\ wr[w].flag = 0) => ~(wr[w].stale /\ wr[w].wrote)

\* C5 amended: a writer of a regular file whose head call succeeded or
\* reported not-found never overwrites an object written after that head
\* call: when the key changed between its Create and its commit, the commit
\* writes nothing and, unless the upload itself failed, the writer gets the
\* precondition-failure error. (A writer whose head call failed otherwise
\* uploads without a precondition and may overwrite.)
C5_NoOverwriteAfterGoodHead ==
    \A w \in Writers :
        (wr[w].pc = "done" /\ wr[w].flag = 0 /\ wr[w].stale
           /\ (wr[w].statErr = Nil \/ IsNotExist(wr[w].statErr)))
        => /\ ~wr[w].wrote
           /\ ~wr[w].failed => wr[w].err = ErrApi412

C5_Witness ==
    \E w, v \in Writers :
        /\ w # v
        /\ wr[w].pc = "done" /\ wr[v].pc = "done"
        /\ wr[w].flag = 0 /\ wr[v].flag = 0
        /\ wr[w].statErr = Nil /\ wr[v].statErr = Nil
        /\ wr[w].wrote /\ wr[v].stale /\ wr[v].err = ErrApi412
        /\ store[kB].content = ToString(w)

\* C6: an upload with the must-not-exist precondition (flag -1, or a regular
\* create whose head call reported not-found) that commits while the key
\* exists gives the writer the precondition-failure error and leaves the
\* object at the key as it was
C6_MustNotExistFails ==
    [][\A w \in Writers :
         (/\ wr[w].pc = "streaming" /\ wr'[w].pc = "done"
          /\ wr[w].flag = -1 \/ IsNotExist(wr[w].statErr)
          /\ Live(store, wr[w].name)
          /\ ~wr'[w].failed)
         => (wr'[w].err = ErrApi412 /\ store' = store)]_vars

C6_Witness ==
    \E w \in Writers :
        /\ wr[w].pc = "done" /\ wr[w].flag = 0 /\ IsNotExist(wr[w].statErr)
        /\ wr[w].stale /\ wr[w].err = ErrApi412
        /\ Live(store, kB)

-----------------------------------------------------------------------------
(* Listings: ReadDir and GetDirSize applied to the buckets below.           *)

kA == <<"a", "/">>
kE == <<"a", "/", "e">>
kG == <<"a", "/", "g", "/">>

\* what a key of a listed bucket may hold: files, a soft-deleted file,
\* zero-length markers with and without the trailing slash, a plain file that
\* has the name of a directory, and a marker that is not empty
ListChoices ==
    [k \in {kA, kB, kD, kF, kCm, kCl, kE, kG} |->
        CASE k = kA -> {Obj(0, dirMimeType, "marker", 1, FALSE)}
          [] k = kB -> {Obj(10, "text/plain", "b", 1, FALSE)}
          [] k = kD -> {Obj(5, "text/plain", "d", 1, FALSE)}
          [] k = kF -> {Obj(3, "", "f", 1, FALSE)}
          [] k = kCm -> {Obj(0, dirMimeType, "marker", 1, FALSE)}
          [] k = kCl -> {Obj(0, dirMimeType, "marker", 1, FALSE), Obj(4, "", "c", 1, FALSE)}
          [] k = kE -> {Obj(2, "", "e", 1, TRUE)}
          [] k = kG -> {Obj(6, "", "g", 1, FALSE)}]

EmptyBucket == [k \in {} |-> NoObject]

\* the buckets that hold, for each key of K, nothing or one of its choices
RECURSIVE BucketsOver(_)
BucketsOver(K) ==
    IF K = {} THEN {EmptyBucket}
    ELSE LET k == CHOOSE x \in K : TRUE
             rest == BucketsOver(K \ {k})
         IN rest \cup {Put(st, k, o) : st \in rest, o \in ListChoices[k]}

ListBuckets == BucketsOver(DOMAIN ListChoices)

ListDirs == {<<>>, pA, pC}

InitList ==
    /\ store \in ListBuckets
    /\ nextGen = FirstGen
    /\ renameMode = 0
    /\ faults = 0
    /\ phase = "idle"
    /\ args = NoArgs
    /\ stack = <<>>
    /\ ret = NoRet
    /\ store0 = store
    /\ removed = {}
    /\ copied = <<>>
    /\ wr = <<>>
    /\ out = IdleLists
    /\ fs = RootFs
    /\ xfer = <<>>
    /\ sink = <<>>
    /\ overlay = NoOverlay

\* the NextPage calls a listing of the prefix makes
NumPages(st, dirname, delim) == Len(ListPages(st, getPrefix(dirname), delim, PageSize))

\* one listing call in a behaviour: the calls read the bucket and change nothing
CallReadDir(dirname) ==
    /\ out.op = "none"
    /\ \E failPage \in 0..NumPages(store, dirname, TRUE) :
         LET r == ReadDir(store, dirname, failPage) IN
         out' = [op |-> "ReadDir", dirname |-> dirname, result |-> r.result,
                 err |-> r.err]
    /\ UNCHANGED <<fs, xfer, sink, overlay, store, nextGen, renameMode, faults, phase, args, stack, ret,
                   store0, removed, copied, wr>>

CallGetDirSize(dirname) ==
    /\ out.op = "none"
    /\ \E failPage \in 0..NumPages(store, dirname, FALSE) :
         LET r == GetDirSize(store, dirname, failPage) IN
         out' = [op |-> "GetDirSize", dirname |-> dirname, numFiles |-> r.numFiles,
                 size |-> r.size, err |-> r.err]
    /\ UNCHANGED <<fs, xfer, sink, overlay, store, nextGen, renameMode, faults, phase, args, stack, ret,
                   store0, removed, copied, wr>>

NextList ==
    \/ \E d \in ListDirs : CallReadDir(d)
    \/ \E d \in ListDirs : CallGetDirSize(d)

SpecList == InitList /\ [][NextList]_vars

\* C9 as claimed: the list ReadDir returns holds no two entries with the same name
C9_NoTwoEntriesSameName ==
    out.op = "ReadDir" =>
        \A i, j \in 1..Len(out.result) :
            i # j => out.result[i].name # out.result[j].name

\* C9 amended: the list ReadDir returns holds no two directories with the
\* same name and no two files with the same name, also when a subdirectory
\* comes both from a delimiter prefix and from a marker object, in one page
\* or in two; a file object and a directory of the same name are both listed
C9_NoTwoDirectoriesSameName ==
    out.op = "ReadDir" =>
        \A i, j \in 1..Len(out.result) :
            (i # j /\ out.result[i].name = out.result[j].name)
            => out.result[i].isDir # out.result[j].isDir

C9_Witness ==
    /\ out.op = "ReadDir" /\ out.dirname = pA /\ out.err = Nil
    /\ Live(store, kCl) /\ store[kCl].ContentType = dirMimeType /\ Live(store, kD)
    /\ Len(ListPages(store, kA, TRUE, PageSize)) > 1
    /\ Cardinality({i \in 1..Len(out.result) : out.result[i].name = <<"c">>}) = 1

RECURSIVE SumOver(_, _)
SumOver(st, K) ==
    IF K = {} THEN 0
    ELSE LET k == CHOOSE x \in K : TRUE IN st[k].Size + SumOver(st, K \ {k})

\* the live objects under the prefix that are not zero-length directory markers
CountedObjects(st, dirname) ==
    {k \in DOMAIN st :
        /\ HasPrefix(k, getPrefix(dirname))
        /\ ~st[k].Deleted
        /\ ~((HasSuffix(k, Slash) \/ st[k].ContentType = dirMimeType) /\ st[k].Size = 0)}

\* C10: a GetDirSize that reads all its pages returns the number and the
\* summed size of the live objects under the prefix that are not zero-length
\* directory markers
C10_GetDirSizeCounts ==
    (out.op = "GetDirSize" /\ out.err = Nil) =>
        /\ out.numFiles = Cardinality(CountedObjects(store, out.dirname))
        /\ out.size = SumOver(store, CountedObjects(store, out.dirname))

C10_Witness ==
    /\ out.op = "GetDirSize" /\ out.dirname = pA /\ out.err = Nil
    /\ {kA, kB, kD, kCm, kE} \subseteq DOMAIN store
    /\ out.numFiles = 2 /\ out.size = 15

-----------------------------------------------------------------------------
(* Stat: applied to the buckets of the rename calls, with and without a     *)
(* key prefix.                                                              *)

\* Stat(name); f = "head", "list", "head2": that backend call of getObjectStat fails
Stat(st, fsv, name, f) ==
    IF name = <<>> \/ name = Slash \/ name = Dot
    THEN [err |-> Nil, info |-> NewFileInfo(name, TRUE, 0)]
    ELSE IF fsv.KeyPrefix = name \o Slash
    THEN [err |-> Nil, info |-> NewFileInfo(name, TRUE, 0)]
    ELSE getObjectStat(st, name, f)

\* a GCSFs whose key prefix is "a/"
PrefixFs == [KeyPrefix |-> kA, mountPath |-> <<>>]

StatNames == {<<>>, Slash, Dot, pA, pC, kB, kF, <<"a", "/", "c", "/", "e">>, pZ}

InitStat ==
    /\ store \in Buckets
    /\ nextGen = FirstGen
    /\ renameMode = 0
    /\ faults = 0
    /\ phase = "idle"
    /\ args = NoArgs
    /\ stack = <<>>
    /\ ret = NoRet
    /\ store0 = store
    /\ removed = {}
    /\ copied = <<>>
    /\ wr = <<>>
    /\ out = IdleLists
    /\ fs \in {RootFs, PrefixFs}
    /\ xfer = <<>>
    /\ sink = <<>>
    /\ overlay = NoOverlay

\* one Stat call in a behaviour: it reads the bucket and changes nothing
CallStat(name) ==
    /\ out.op = "none"
    /\ \E f \in {FaultNone, "head", "list", "head2"} :
         LET r == Stat(store, fs, name, f) IN
         /\ CanFail(f)
         /\ faults' = Count(f)
         /\ out' = [op |-> "Stat", name |-> name, info |-> r.info, err |-> r.err]
    /\ UNCHANGED <<store, nextGen, renameMode, phase, args, stack, ret,
                   store0, removed, copied, wr, fs, xfer, sink, overlay>>

\* one hasContents call in a behaviour; f = "list": the listing fails
CallHasContents(name) ==
    /\ out.op = "none"
    /\ \E f \in {FaultNone, "list"} :
         /\ CanFail(f)
         /\ faults' = Count(f)
         /\ out' = [op |-> "hasContents", name |-> name, info |-> NoInfo,
                    result |-> hasContents(store, name, f).result,
                    err |-> hasContents(store, name, f).err]
    /\ UNCHANGED <<store, nextGen, renameMode, phase, args, stack, ret,
                   store0, removed, copied, wr, fs, xfer, sink, overlay>>

NextStat ==
    \/ \E name \in StatNames : CallStat(name)
    \/ \E name \in {pA, pC} : CallHasContents(name)

SpecStat == InitStat /\ [][NextStat]_vars

\* the live keys that have name + "/" as a proper prefix
KeysBeneath(st, name) ==
    {k \in DOMAIN st : Live(st, k) /\ HasPrefix(k, name \o Slash) /\ k # name \o Slash}

\* C11: Stat of a name that has no object, while some object's key has
\* name + "/" as a proper prefix, returns no error and a directory of size 0
\* (no backend call failing)
C11_StatVirtualDirectory ==
    (out.op = "Stat" /\ faults = 0 /\ ~Live(store, out.name)
       /\ KeysBeneath(store, out.name) # {})
    => (out.err = Nil /\ out.info.isDir /\ out.info.size = 0)

-----------------------------------------------------------------------------
(* The streaming bridge: Open and Create make a local pipe and a context    *)
(* and start a task that copies between the pipe and the backend. The task  *)
(* runs concurrently with the protocol handler at the other end of the pipe *)
(* and with the caller, which holds the cancel function. Each iteration of  *)
(* io.Copy and each statement after it is one step of the task. A          *)
(* behaviour follows one call: the tasks of two calls share no state but    *)
(* the bucket, whose concurrent writers SpecCreate covers.                  *)

\* the bytes an object holds and the bytes a handler writes, at most
MaxBytes == 2

\* the call a behaviour follows
Calls == {"call"}

ErrPipe == "pipe error"
ErrCanceled == "context canceled"
ErrClosedPipe == "io: read/write on closed pipe"
ErrGzipRange == "range request is not possible for gzip content encoding"

kZ == <<"z">>

\* one end of a pipe: the bytes that passed it and the errors it was closed with
NoPipeEnd == [bytes |-> 0, closes |-> <<>>]

IdleCall ==
    [op |-> "none", name |-> <<>>, offset |-> 0, flag |-> 0, pc |-> "idle",
     retErr |-> Nil, retStream |-> FALSE, retCancel |-> FALSE,
     ctx |-> "none", cancels |-> <<>>, cond |-> NoCond, enc |-> "",
     src |-> 0, w |-> NoPipeEnd, r |-> NoPipeEnd,
     n |-> 0, copyErr |-> Nil, closeErr |-> Nil, err |-> Nil, done |-> <<>>,
     eos |-> "none", werr |-> "none"]

\* cancelFn invoked by who: the context is cancelled from then on
Cancel(x, who) == [x EXCEPT !.ctx = "cancelled", !.cancels = Append(@, who)]

\* Close or CloseWithError of a pipe end
ClosePipeEnd(e, err) == [e EXCEPT !.closes = Append(@, err)]

\* obj.NewRangeReader and the check of the content encoding (140-144);
\* f = "reader": the backend call fails
openReaderNoGzipCheck(st, name, offset, f) ==
    IF f = "reader" THEN [err |-> ErrApi500, enc |-> "", src |-> 0]
    ELSE IF ~Live(st, name) THEN [err |-> ErrObjectNotExist, enc |-> "", src |-> 0]
    ELSE [err |-> Nil, enc |-> st[name].ContentEncoding, src |-> st[name].Size - offset]

openReader(st, name, offset, f) ==
    IF f = "reader" THEN [err |-> ErrApi500, enc |-> "", src |-> 0]
    ELSE IF ~Live(st, name) THEN [err |-> ErrObjectNotExist, enc |-> "", src |-> 0]
    ELSE IF offset > 0 /\ st[name].ContentEncoding = "gzip"
    THEN [err |-> ErrGzipRange, enc |-> "gzip", src |-> 0]
    ELSE [err |-> Nil, enc |-> st[name].ContentEncoding, src |-> st[name].Size - offset]

\* the error return of Open with the cancel function left uncalled
openErrorNoCancel(x, err) ==
    [x EXCEPT !.pc = "failed", !.retErr = err,
              !.r = ClosePipeEnd(@, Nil), !.w = ClosePipeEnd(@, Nil),
              !.ctx = "active"]

\* the error return of Open that also runs the end of the task
openErrorCompletes(x, err) ==
    [Cancel(x, "call") EXCEPT !.pc = "report", !.retErr = err, !.err = err,
                              !.r = ClosePipeEnd(@, Nil), !.w = ClosePipeEnd(@, err)]

\* the error return of Open (145-150): both pipe ends closed, cancelFn called
openError(x, err) ==
    [Cancel(x, "call") EXCEPT !.pc = "failed", !.retErr = err,
                              !.r = ClosePipeEnd(@, Nil), !.w = ClosePipeEnd(@, Nil)]

\* Open(name, offset) up to its return; f = "pipe": the pipe cannot be made
Open(c, name, offset) ==
    /\ xfer[c].pc = "idle"
    /\ \E f \in {FaultNone, "pipe", "reader"} :
         LET x == [xfer[c] EXCEPT !.op = "Open", !.name = name, !.offset = offset]
             rd == openReader(store, name, offset, f)
         IN xfer' = [xfer EXCEPT ![c] =
                IF f = "pipe" THEN [x EXCEPT !.pc = "failed", !.retErr = ErrPipe]
                ELSE IF rd.err # Nil
                     THEN openError([x EXCEPT !.enc = rd.enc], rd.err)
                     ELSE [x EXCEPT !.pc = "copy", !.ctx = "active", !.enc = rd.enc,
                                    !.src = rd.src, !.retStream = TRUE,
                                    !.retCancel = TRUE]]
    /\ UNCHANGED <<store, nextGen, renameMode, faults, phase, args, stack, ret,
                   store0, removed, copied, wr, out, fs, sink, overlay>>

\* Create(name, flag) up to its return, the upload task started
StreamCreate(c, name, flag) ==
    /\ xfer[c].pc = "idle"
    /\ \E f \in {FaultNone, "pipe"} \cup (IF flag = -1 THEN {} ELSE {"head"}) :
         LET x == [xfer[c] EXCEPT !.op = "Create", !.name = name, !.flag = flag]
         IN xfer' = [xfer EXCEPT ![c] =
                IF f = "pipe" THEN [x EXCEPT !.pc = "failed", !.retErr = ErrPipe]
                ELSE [x EXCEPT !.pc = "copy", !.ctx = "active",
                               !.cond = CreateCond(store, name, flag, f = "head"),
                               !.retStream = TRUE, !.retCancel = TRUE]]
    /\ UNCHANGED <<store, nextGen, renameMode, faults, phase, args, stack, ret,
                   store0, removed, copied, wr, out, fs, sink, overlay>>

\* io.Copy(w, objectReader) returns err
copyEnds(x, err) == [x EXCEPT !.pc = "close", !.copyErr = err]

\* Open's task, one iteration of io.Copy(w, objectReader): a read from the
\* backend and a write into the pipe. A read under a cancelled context fails,
\* unless it is served from what the reader has already received.
DownloadCopy(c) ==
    LET x == xfer[c] IN
    /\ x.op = "Open" /\ x.pc = "copy"
    /\ \/ /\ x.ctx = "cancelled"
          /\ xfer' = [xfer EXCEPT ![c] = copyEnds(x, ErrCanceled)]
       \/ xfer' = [xfer EXCEPT ![c] = copyEnds(x, ErrApi500)]
       \/ /\ x.src > 0
          /\ xfer' = [xfer EXCEPT ![c] =
                IF x.r.closes # <<>>
                THEN copyEnds([x EXCEPT !.src = @ - 1], ErrClosedPipe)
                ELSE [x EXCEPT !.src = @ - 1, !.n = @ + 1, !.w.bytes = @ + 1]]
       \/ /\ x.src = 0 /\ x.ctx = "active"
          /\ xfer' = [xfer EXCEPT ![c] = copyEnds(x, Nil)]
    /\ UNCHANGED <<store, nextGen, renameMode, faults, phase, args, stack, ret,
                   store0, removed, copied, wr, out, fs, sink, overlay>>

\* Create's task, one iteration of io.Copy(objectWriter, r): a read from the
\* pipe, which waits while the pipe is empty and its write end open, and a
\* write into the upload, which fails under a cancelled context
UploadCopy(c) ==
    LET x == xfer[c] IN
    /\ x.op = "Create" /\ x.pc = "copy"
    /\ \/ /\ x.r.bytes < x.w.bytes
          /\ \/ xfer' = [xfer EXCEPT ![c] =
                   IF x.ctx = "cancelled"
                   THEN copyEnds([x EXCEPT !.r.bytes = @ + 1], ErrCanceled)
                   ELSE [x EXCEPT !.r.bytes = @ + 1, !.n = @ + 1]]
             \/ xfer' = [xfer EXCEPT ![c] =
                   copyEnds([x EXCEPT !.r.bytes = @ + 1], ErrApi500)]
       \/ /\ x.r.bytes = x.w.bytes /\ x.w.closes # <<>>
          /\ xfer' = [xfer EXCEPT ![c] = copyEnds(x, x.w.closes[1])]
    /\ UNCHANGED <<store, nextGen, renameMode, faults, phase, args, stack, ret,
                   store0, removed, copied, wr, out, fs, sink, overlay>>

\* w.CloseWithError(err) that closes the write end without the error
closeWriteEndNoError(x, err) ==
    [x EXCEPT !.pc = "report", !.err = err, !.w = ClosePipeEnd(@, Nil)]

\* w.CloseWithError(err) of Open's task (156)
closeWriteEnd(x, err) ==
    [x EXCEPT !.pc = "report", !.err = err, !.w = ClosePipeEnd(@, err)]

DownloadClose(c) ==
    LET x == xfer[c] IN
    /\ x.op = "Open" /\ x.pc = "close"
    /\ xfer' = [xfer EXCEPT ![c] = closeWriteEnd(x, x.copyErr)]
    /\ UNCHANGED <<store, nextGen, renameMode, faults, phase, args, stack, ret,
                   store0, removed, copied, wr, out, fs, sink, overlay>>

\* the error of the upload with the error of Close left out
firstErrorNoClose(err, closeErr) == err

\* the error Create's task delivers (213-215)
firstError(err, closeErr) == IF err = Nil THEN closeErr ELSE err

\* objectWriter.Close: an upload that has failed, or whose context is
\* cancelled, returns that error and commits nothing
closeUpload(st, x, gen, fail) ==
    IF x.copyErr # Nil THEN [err |-> x.copyErr, store |-> st]
    ELSE IF x.ctx = "cancelled" THEN [err |-> ErrCanceled, store |-> st]
    ELSE CommitUpload(st, x.name, x.cond, x.n, CreateContentType(x.name, x.flag),
                      "upload", gen, fail)

\* Create's task after io.Copy: objectWriter.Close, r.CloseWithError, p.Done
UploadClose(c) ==
    LET x == xfer[c] IN
    /\ x.op = "Create" /\ x.pc = "close"
    /\ \E fail \in BOOLEAN :
         LET cl == closeUpload(store, x, nextGen, fail)
             err == firstError(x.copyErr, cl.err)
         IN /\ store' = cl.store
            /\ nextGen' = IF cl.err = Nil THEN nextGen + 1 ELSE nextGen
            /\ xfer' = [xfer EXCEPT ![c] =
                   [x EXCEPT !.pc = "report", !.closeErr = cl.err, !.err = err,
                             !.r = ClosePipeEnd(@, err), !.done = Append(@, err)]]
    /\ UNCHANGED <<renameMode, faults, phase, args, stack, ret,
                   store0, removed, copied, wr, out, fs, sink, overlay>>

\* metric.GCSTransferCompleted that counts failed transfers only
TransferCompletedFailuresOnly(snk, c, n, dir, err) ==
    IF err = Nil THEN snk ELSE Append(snk, [call |-> c, n |-> n, dir |-> dir, err |-> err])

\* metric.GCSTransferCompleted(n, dir, err)
TransferCompleted(snk, c, n, dir, err) ==
    Append(snk, [call |-> c, n |-> n, dir |-> dir, err |-> err])

TaskReport(c) ==
    LET x == xfer[c] IN
    /\ x.pc = "report"
    /\ sink' = TransferCompleted(sink, c, x.n, IF x.op = "Open" THEN 1 ELSE 0, x.err)
    /\ xfer' = [xfer EXCEPT ![c].pc = "return"]
    /\ UNCHANGED <<store, nextGen, renameMode, faults, phase, args, stack, ret,
                   store0, removed, copied, wr, out, fs, overlay>>

\* the deferred calls of the task: objectReader.Close and cancelFn
TaskReturn(c) ==
    /\ xfer[c].pc = "return"
    /\ xfer' = [xfer EXCEPT ![c] = [Cancel(@, "task") EXCEPT !.pc = "exited"]]
    /\ UNCHANGED <<store, nextGen, renameMode, faults, phase, args, stack, ret,
                   store0, removed, copied, wr, out, fs, sink, overlay>>

Task(c) ==
    DownloadCopy(c) \/ UploadCopy(c) \/ DownloadClose(c) \/ UploadClose(c)
    \/ TaskReport(c) \/ TaskReturn(c)

\* the consumer of the reader Open returned reads: a byte, or at the end of
\* the bytes the error the write end was closed with (nil: the end of the stream)
ConsumerRead(c) ==
    LET x == xfer[c] IN
    /\ x.op = "Open" /\ x.retStream /\ x.r.closes = <<>> /\ x.eos = "none"
    /\ \/ /\ x.r.bytes < x.w.bytes
          /\ xfer' = [xfer EXCEPT ![c].r.bytes = @ + 1]
       \/ /\ x.r.bytes = x.w.bytes /\ x.w.closes # <<>>
          /\ xfer' = [xfer EXCEPT ![c].eos = x.w.closes[1]]
    /\ UNCHANGED <<store, nextGen, renameMode, faults, phase, args, stack, ret,
                   store0, removed, copied, wr, out, fs, sink, overlay>>

\* the consumer closes the reader
ConsumerClose(c) ==
    LET x == xfer[c] IN
    /\ x.op = "Open" /\ x.retStream /\ x.r.closes = <<>>
    /\ xfer' = [xfer EXCEPT ![c].r = ClosePipeEnd(@, Nil)]
    /\ UNCHANGED <<store, nextGen, renameMode, faults, phase, args, stack, ret,
                   store0, removed, copied, wr, out, fs, sink, overlay>>

\* the handler writes a byte into the PipeWriter Create returned; once the
\* read end is closed the write returns the error it was closed with
HandlerWrite(c) ==
    LET x == xfer[c] IN
    /\ x.op = "Create" /\ x.retStream /\ x.w.closes = <<>> /\ x.werr = "none"
    /\ x.w.bytes < MaxBytes
    /\ xfer' = [xfer EXCEPT ![c] =
           IF x.r.closes # <<>>
           THEN [x EXCEPT !.werr = IF x.r.closes[1] = Nil THEN ErrClosedPipe
                                   ELSE x.r.closes[1]]
           ELSE [x EXCEPT !.w.bytes = @ + 1]]
    /\ UNCHANGED <<store, nextGen, renameMode, faults, phase, args, stack, ret,
                   store0, removed, copied, wr, out, fs, sink, overlay>>

\* the handler closes the PipeWriter
HandlerClose(c) ==
    LET x == xfer[c] IN
    /\ x.op = "Create" /\ x.retStream /\ x.w.closes = <<>>
    /\ xfer' = [xfer EXCEPT ![c].w = ClosePipeEnd(@, Nil)]
    /\ UNCHANGED <<store, nextGen, renameMode, faults, phase, args, stack, ret,
                   store0, removed, copied, wr, out, fs, sink, overlay>>

\* the caller invokes the cancel function it was returned
CallerCancel(c) ==
    LET x == xfer[c] IN
    /\ x.retCancel /\ \A i \in 1..Len(x.cancels) : x.cancels[i] # "caller"
    /\ xfer' = [xfer EXCEPT ![c] = Cancel(x, "caller")]
    /\ UNCHANGED <<store, nextGen, renameMode, faults, phase, args, stack, ret,
                   store0, removed, copied, wr, out, fs, sink, overlay>>

\* the objects a transfer reads: a plain one and a gzip-encoded one
StreamObjects ==
    (kB :> Obj(MaxBytes, "text/plain", "b", 1, FALSE))
    @@ (kZ :> [Obj(MaxBytes, "", "z", 2, FALSE) EXCEPT !.ContentEncoding = "gzip"])

OpenCalls == {[name |-> n, offset |-> o] : n \in {kB, kZ}, o \in {0, 1}}

InitStream ==
    /\ store \in {[k \in K |-> StreamObjects[k]] : K \in SUBSET {kB, kZ}}
    /\ nextGen = FirstGen
    /\ renameMode = 0
    /\ faults = 0
    /\ phase = "idle"
    /\ args = NoArgs
    /\ stack = <<>>
    /\ ret = NoRet
    /\ store0 = store
    /\ removed = {}
    /\ copied = <<>>
    /\ wr = <<>>
    /\ out = IdleLists
    /\ fs = RootFs
    /\ xfer = [c \in Calls |-> IdleCall]
    /\ sink = <<>>
    /\ overlay = NoOverlay

NextStream ==
    \/ \E c \in Calls : \E o \in OpenCalls : Open(c, o.name, o.offset)
    \/ \E c \in Calls : \E k \in CreateCalls : StreamCreate(c, k.name, k.flag)
    \/ \E c \in Calls : DownloadCopy(c)
    \/ \E c \in Calls : UploadCopy(c)
    \/ \E c \in Calls : DownloadClose(c)
    \/ \E c \in Calls : UploadClose(c)
    \/ \E c \in Calls : TaskReport(c)
    \/ \E c \in Calls : TaskReturn(c)
    \/ \E c \in Calls : ConsumerRead(c)
    \/ \E c \in Calls : ConsumerClose(c)
    \/ \E c \in Calls : HandlerWrite(c)
    \/ \E c \in Calls : HandlerClose(c)
    \/ \E c \in Calls : CallerCancel(c)

SpecStream == InitStream /\ [][NextStream]_vars

\* the scheduler runs a task that can take a step; the handler, the consumer
\* and the caller are under no obligation
SpecStreamFair == SpecStream /\ \A c \in Calls : WF_vars(Task(c))

\* the transfer events the sink holds for a call
EventsOf(c) == SelectSeq(sink, LAMBDA e : e.call = c)

\* C12: an Open with a positive offset on an object whose content encoding is
\* gzip returns the error without starting the task: in every state after it
\* no byte has been written to the pipe, both pipe ends are closed, the cancel
\* function has been called and neither a reader nor a cancel function was
\* returned
C12_GzipRangeFails ==
    \A c \in Calls :
        LET x == xfer[c] IN
        (x.op = "Open" /\ x.offset > 0 /\ x.enc = "gzip")
        => /\ x.pc = "failed" /\ x.retErr = ErrGzipRange
           /\ x.w.bytes = 0 /\ x.n = 0 /\ EventsOf(c) = <<>>
           /\ x.r.closes = <<Nil>> /\ x.w.closes = <<Nil>>
           /\ x.ctx = "cancelled" /\ x.cancels = <<"call">>
           /\ ~x.retStream /\ ~x.retCancel

C12_Witness ==
    \E c \in Calls :
        /\ xfer[c].op = "Open" /\ xfer[c].name = kZ /\ xfer[c].offset = 1
        /\ xfer[c].enc = "gzip" /\ xfer[c].retErr = ErrGzipRange

\* the state of a call: Idle until Open or Create has started the task,
\* Streaming while the task copies, Completed once the task has delivered the
\* error of the transfer; a call that returned an error has no task
StateOf(x) ==
    CASE x.pc = "idle" -> "Idle"
      [] x.pc = "failed" -> "Failed"
      [] x.pc \in {"copy", "close"} -> "Streaming"
      [] x.pc \in {"report", "return", "exited"} -> "Completed"

\* the completions the task of a call has delivered: CloseWithError on the
\* write end for a read, p.Done for a write
Completions(x) ==
    IF x.op = "Create" THEN Len(x.done)
    ELSE IF x.retStream THEN Len(x.w.closes)
    ELSE 0

\* C13: a call enters Completed only from Streaming, by delivering its one
\* completion, and never leaves Completed nor delivers a second completion
C13_StateMachine ==
    [][\A c \in Calls :
         /\ (StateOf(xfer'[c]) = "Completed" /\ StateOf(xfer[c]) # "Completed")
            => (StateOf(xfer[c]) = "Streaming" /\ Completions(xfer[c]) = 0)
         /\ StateOf(xfer[c]) = "Completed" => StateOf(xfer'[c]) = "Completed"
         /\ StateOf(xfer[c]) = "Streaming" => StateOf(xfer'[c]) \in {"Streaming", "Completed"}
         /\ Completions(xfer'[c]) = (IF StateOf(xfer'[c]) = "Completed" THEN 1 ELSE 0)]_vars

C13_Witness ==
    \E c \in Calls :
        /\ xfer[c].op = "Create" /\ xfer[c].pc = "exited" /\ xfer[c].err = Nil
        /\ xfer[c].n = MaxBytes /\ Live(store, xfer[c].name)

\* C14: the sink holds exactly one transfer event for a call whose task has
\* reported, with the bytes copied, the direction (1 for a read, 0 for a
\* write) and the error of the transfer, whether it succeeded, failed or was
\* cancelled; it holds no event for a call that returned an error before
\* starting the task, nor for a task that has not reported yet
C14_OneTransferEvent ==
    \A c \in Calls :
        LET x == xfer[c] IN
        EventsOf(c) =
            IF x.pc \in {"return", "exited"}
            THEN <<[call |-> c, n |-> x.n, dir |-> IF x.op = "Open" THEN 1 ELSE 0,
                    err |-> x.err]>>
            ELSE <<>>

C14_Witness ==
    \E c \in Calls :
        /\ xfer[c].op = "Open" /\ xfer[c].pc = "exited"
        /\ xfer[c].copyErr = ErrCanceled /\ xfer[c].n = 1
        /\ sink = <<[call |-> c, n |-> 1, dir |-> 1, err |-> ErrCanceled]>>

\* C15: the task of a Create delivers one error, the error of the copy when
\* there is one and otherwise the error of closing the upload (nil when both
\* succeed), once to the read end of the pipe and once to PipeWriter.Done;
\* before that it has delivered nothing
C15_UploadErrorDelivered ==
    \A c \in Calls :
        LET x == xfer[c]
            e == IF x.copyErr # Nil THEN x.copyErr ELSE x.closeErr
        IN x.op = "Create" =>
             IF StateOf(x) = "Completed"
             THEN x.r.closes = <<e>> /\ x.done = <<e>>
             ELSE x.r.closes = <<>> /\ x.done = <<>>

C15_Witness ==
    \E c \in Calls :
        /\ xfer[c].op = "Create" /\ xfer[c].pc = "exited"
        /\ xfer[c].copyErr = Nil /\ xfer[c].closeErr = ErrApi500
        /\ xfer[c].done = <<ErrApi500>> /\ xfer[c].r.closes = <<ErrApi500>>

\* C16: the task of an Open closes the write end of the pipe once, with the
\* error io.Copy returned (nil at the clean end of the object), and not before
\* the copy has ended; a consumer that reads to the end of the stream has
\* then read every byte the task copied and observes that same error
C16_DownloadErrorObserved ==
    \A c \in Calls :
        LET x == xfer[c] IN
        (x.op = "Open" /\ x.retStream) =>
            /\ x.w.closes = IF StateOf(x) = "Completed" THEN <<x.copyErr>> ELSE <<>>
            /\ x.eos # "none" =>
                 (StateOf(x) = "Completed" /\ x.eos = x.copyErr /\ x.r.bytes = x.n)

C16_Witness ==
    \E c \in Calls :
        /\ xfer[c].op = "Open" /\ xfer[c].eos = ErrApi500
        /\ xfer[c].n = 1 /\ xfer[c].r.bytes = 1 /\ xfer[c].w.closes = <<ErrApi500>>

\* who has invoked the cancel function of a call
Cancellers(x) == {x.cancels[i] : i \in 1..Len(x.cancels)}

\* C17: a call that created a context has invoked the cancel function when
\* it is over: Open itself on its error return, the task (by its deferred
\* call) when it ends, after a success, after a failed transfer and after
\* the caller cancelled
C17_CancelOnEveryExit ==
    \A c \in Calls :
        LET x == xfer[c] IN
        x.ctx # "none" =>
            /\ x.pc = "failed" => ("call" \in Cancellers(x) /\ x.ctx = "cancelled")
            /\ x.pc = "exited" => ("task" \in Cancellers(x) /\ x.ctx = "cancelled")

C17_Witness ==
    \E c \in Calls :
        /\ xfer[c].op = "Create" /\ xfer[c].pc = "exited"
        /\ xfer[c].cancels = <<"caller", "task">> /\ xfer[c].err = ErrCanceled

\* C18: once the caller has invoked the cancel function of a call whose task
\* is still copying, the task reaches Completed
C18_CancelUnblocks ==
    \A c \in Calls :
        ("caller" \in Cancellers(xfer[c]) /\ StateOf(xfer[c]) = "Streaming")
        ~> (StateOf(xfer[c]) = "Completed")

-----------------------------------------------------------------------------
(* The metadata overlay: when the plugin handler has a metadater, ReadDir   *)
(* asks it for the modification times of a folder, a file Rename stores the *)
(* modification time of the source for the target, and a file Remove drops  *)
(* the record of the file. The plugin either answers or fails.              *)

ErrMetadata == "metadata plugin error"

\* the modification times the plugin holds at first: none, or one for a/b.txt
OverlayTimes == {<<>>, (Slash \o kB) :> 7}

Overlays ==
    {NoOverlay}
    \cup {[HasMetadater |-> TRUE, modTimes |-> m, fails |-> b] :
            m \in OverlayTimes, b \in BOOLEAN}

ensureAbsPath(name) == IF IsAbs(name) THEN name ELSE Slash \o name

\* getFolderModTimes(storageID, dirname): the times the plugin holds, or its error
getFolderModTimes(ov, dirname) ==
    IF ~ov.HasMetadater THEN [modTimes |-> <<>>, err |-> Nil]
    ELSE IF ov.fails THEN [modTimes |-> <<>>, err |-> ErrMetadata]
    ELSE [modTimes |-> ov.modTimes, err |-> Nil]

\* plugin.Handler.SetModificationTime(storageID, path, t)
SetModificationTime(ov, name, t) ==
    IF ov.fails THEN [err |-> ErrMetadata, overlay |-> ov]
    ELSE [err |-> Nil, overlay |-> [ov EXCEPT !.modTimes = Put(@, name, t)]]

\* plugin.Handler.RemoveMetadata(storageID, path)
RemoveMetadata(ov, name) ==
    IF ov.fails THEN [err |-> ErrMetadata, overlay |-> ov]
    ELSE [err |-> Nil, overlay |-> [ov EXCEPT !.modTimes = Del(@, name)]]

\* ReadDir with the plugin (345-348)
ReadDirOverlay(st, ov, dirname, failPage) ==
    LET mt == getFolderModTimes(ov, dirname) IN
    IF mt.err # Nil THEN [result |-> <<>>, err |-> mt.err]
    ELSE ReadDir(st, dirname, failPage)

\* Remove with the plugin: RemoveMetadata after a successful delete (268-274)
removeMetadataAfter(ov, name, isDir, r) ==
    [err |-> r.err, store |-> r.store,
     overlay |-> IF ov.HasMetadater /\ r.err = Nil /\ ~isDir
                 THEN RemoveMetadata(ov, ensureAbsPath(name)).overlay
                 ELSE ov]

RemoveOverlay(st, ov, name, isDir, f) ==
    removeMetadataAfter(ov, name, isDir, Remove(st, name, isDir, f))

\* the modification time of a file: the plugin's when it holds one, else the
\* object's own, which the generation stands for
ModTimeOf(st, ov, name) ==
    IF ensureAbsPath(name) \in DOMAIN ov.modTimes THEN ov.modTimes[ensureAbsPath(name)]
    ELSE st[name].Generation

\* renameInternal of a file with the plugin (801-819): what it returns after
\* the copy cp and the removal rm of the source
renameFileReturn(st, ov, source, cp, rm) ==
    IF cp.err # Nil
    THEN [n |-> 0, size |-> 0, err |-> cp.err, store |-> cp.store, overlay |-> ov]
    ELSE [n |-> 1, size |-> st[source].Size,
          err |-> IF IsNotExist(rm.err) THEN Nil ELSE rm.err,
          store |-> rm.store, overlay |-> rm.overlay]

\* SetModificationTime on the target (806-813), then Remove of the source (814)
renameFileAfterCopy(st, ov, source, target, f, cp) ==
    renameFileReturn(st, ov, source, cp,
        RemoveOverlay(cp.store,
                      IF ov.HasMetadater
                      THEN SetModificationTime(ov, ensureAbsPath(target),
                                               ModTimeOf(st, ov, source)).overlay
                      ELSE ov,
                      source, FALSE, IF f = "delete" THEN f ELSE FaultNone))

\* f = "head", "copy", "delete": that backend call fails
renameFileOverlay(st, ov, source, target, gen, f) ==
    renameFileAfterCopy(st, ov, source, target, f,
        copyFileInternal(st, source, target, gen, IF f = "delete" THEN FaultNone ELSE f))

\* the plugin when its calls succeed
Answering(ov) == [ov EXCEPT !.fails = FALSE]

InitOverlay ==
    /\ store \in Buckets
    /\ nextGen = FirstGen
    /\ renameMode = 1
    /\ faults = 0
    /\ phase = "idle"
    /\ args = NoArgs
    /\ stack = <<>>
    /\ ret = NoRet
    /\ store0 = store
    /\ removed = {}
    /\ copied = <<>>
    /\ wr = <<>>
    /\ out = IdleLists
    /\ fs = RootFs
    /\ xfer = <<>>
    /\ sink = <<>>
    /\ overlay \in Overlays

\* one call in a behaviour; out keeps its result and the result the same call
\* has when the plugin answers
OverlayReadDir(dirname) ==
    /\ out.op = "none"
    /\ \E failPage \in 0..NumPages(store, dirname, TRUE) :
         LET r == ReadDirOverlay(store, overlay, dirname, failPage)
             a == ReadDirOverlay(store, Answering(overlay), dirname, failPage)
         IN out' = [op |-> "ReadDir", name |-> dirname, fault |-> failPage # 0,
                    got |-> [result |-> r.result, err |-> r.err, store |-> store],
                    ref |-> [result |-> a.result, err |-> a.err, store |-> store]]
    /\ UNCHANGED <<store, nextGen, renameMode, faults, phase, args, stack, ret,
                   store0, removed, copied, wr, fs, xfer, sink, overlay>>

OverlayRemove(name) ==
    /\ out.op = "none"
    /\ Live(store, name)
    /\ \E f \in {FaultNone, "head", "delete"} :
         LET r == RemoveOverlay(store, overlay, name, FALSE, f)
             a == RemoveOverlay(store, Answering(overlay), name, FALSE, f)
         IN /\ store' = r.store
            /\ overlay' = r.overlay
            /\ out' = [op |-> "Remove", name |-> name, fault |-> f # FaultNone,
                       got |-> [result |-> <<>>, err |-> r.err, store |-> r.store],
                       ref |-> [result |-> <<>>, err |-> a.err, store |-> a.store]]
    /\ UNCHANGED <<nextGen, renameMode, faults, phase, args, stack, ret,
                   store0, removed, copied, wr, fs, xfer, sink>>

\* r: what the call returns; a: what it returns when the plugin answers
OverlayRenameDone(source, f, r, a) ==
    /\ store' = r.store
    /\ overlay' = r.overlay
    /\ nextGen' = nextGen + 1
    /\ out' = [op |-> "Rename", name |-> source, fault |-> f # FaultNone,
               got |-> [result |-> <<r.n, r.size>>, err |-> r.err, store |-> r.store],
               ref |-> [result |-> <<a.n, a.size>>, err |-> a.err, store |-> a.store]]

OverlayRename(source, target) ==
    /\ out.op = "none"
    /\ Live(store, source)
    /\ \E f \in {FaultNone, "head", "copy", "delete"} :
         OverlayRenameDone(source, f,
             renameFileOverlay(store, overlay, source, target, nextGen, f),
             renameFileOverlay(store, Answering(overlay), source, target, nextGen, f))
    /\ UNCHANGED <<renameMode, faults, phase, args, stack, ret,
                   store0, removed, copied, wr, fs, xfer, sink>>

NextOverlay ==
    \/ \E d \in ListDirs : OverlayReadDir(d)
    \/ \E k \in {kB, kD} : OverlayRemove(k)
    \/ OverlayRename(kB, pX)

SpecOverlay == InitOverlay /\ [][NextOverlay]_vars

\* C19: a ReadDir, a file Remove and a file Rename return the same result
\* and leave the same bucket whether the calls to the plugin fail or succeed
C19_OverlayBestEffort ==
    out.op # "none" => out.got = out.ref

-----------------------------------------------------------------------------
(* The path resolver: ResolvePath maps a virtual path to a key and          *)
(* GetRelativePath maps a key back, for filesystems with and without a key  *)
(* prefix and a mount path.                                                 *)

\* the elements of a virtual path, at most
MaxSegs == 3

pM == <<"/", "x">>

\* the filesystems: the key prefix is empty or ends with "/", the mount path
\* is empty or a cleaned absolute path
Filesystems ==
    {[KeyPrefix |-> kp, mountPath |-> mp] :
        kp \in {<<>>, kA, kCm}, mp \in {<<>>, pM}}

PathElems == {<<>>, Dot, DotDot, <<"a">>, <<"x">>, <<"x", "a">>}

\* the absolute paths of n elements, "/" for none
RECURSIVE PathsOf(_)
PathsOf(n) ==
    IF n = 0 THEN {<<>>}
    ELSE {p \o Slash \o e : p \in PathsOf(n - 1), e \in PathElems}

VirtualPaths == {Slash} \cup UNION {PathsOf(n) : n \in 1..MaxSegs}

\* Join of two elements
Join(a, b) == TrimPrefix(PathJoin(a, b), Slash)

ResolvePath(fsv, virtualPath) ==
    LET v1 == IF fsv.mountPath # <<>> THEN TrimPrefix(virtualPath, fsv.mountPath)
              ELSE virtualPath
        v2 == IF ~IsAbs(v1) THEN PathClean(Slash \o v1) ELSE v1
    IN Join(fsv.KeyPrefix, TrimPrefix(v2, Slash))

GetRelativePath(fsv, name) ==
    LET r0 == PathClean(name)
        r1 == IF r0 = Dot THEN <<>> ELSE r0
        r2 == IF ~IsAbs(r1) THEN Slash \o r1 ELSE r1
        r3 == IF fsv.KeyPrefix # <<>>
              THEN LET r == IF ~HasPrefix(r2, Slash \o fsv.KeyPrefix) THEN Slash ELSE r2
                   IN PathClean(Slash \o TrimPrefix(r, Slash \o fsv.KeyPrefix))
              ELSE r2
    IN IF fsv.mountPath # <<>> THEN PathJoin(fsv.mountPath, r3) ELSE r3

InitPath ==
    /\ store = EmptyBucket
    /\ nextGen = FirstGen
    /\ renameMode = 0
    /\ faults = 0
    /\ phase = "idle"
    /\ args = NoArgs
    /\ stack = <<>>
    /\ ret = NoRet
    /\ store0 = store
    /\ removed = {}
    /\ copied = <<>>
    /\ wr = <<>>
    /\ out = IdleLists
    /\ fs \in Filesystems
    /\ xfer = <<>>
    /\ sink = <<>>
    /\ overlay = NoOverlay

\* a virtual path resolved and the key mapped back
CallResolvePath(p) ==
    /\ out.op = "none"
    /\ LET key == ResolvePath(fs, p) IN
       out' = [op |-> "ResolvePath", path |-> p, key |-> key,
               rel |-> GetRelativePath(fs, key)]
    /\ UNCHANGED <<store, nextGen, renameMode, faults, phase, args, stack, ret,
                   store0, removed, copied, wr, fs, xfer, sink, overlay>>

\* the keys handed to GetRelativePath: beneath a key prefix, beside it, and a
\* key that only starts with the letters of one
RelKeys == {<<>>, pA, kA, kB, kCm, kD, pCC, pZ}

\* a key mapped to the path the user sees
CallGetRelativePath(k) ==
    /\ out.op = "none"
    /\ out' = [op |-> "GetRelativePath", path |-> <<>>, key |-> k,
               rel |-> GetRelativePath(fs, k)]
    /\ UNCHANGED <<store, nextGen, renameMode, faults, phase, args, stack, ret,
                   store0, removed, copied, wr, fs, xfer, sink, overlay>>

NextPath ==
    \/ \E p \in VirtualPaths : CallResolvePath(p)
    \/ \E k \in RelKeys : CallGetRelativePath(k)

SpecPath == InitPath /\ [][NextPath]_vars

\* p is the mount path or lies beneath it
UnderMount(fsv, p) ==
    \/ fsv.mountPath = <<>>
    \/ p = fsv.mountPath
    \/ HasPrefix(p, fsv.mountPath \o Slash)

\* C20: for a virtual path whose cleaned form is the mount path or lies
\* beneath it, GetRelativePath(ResolvePath(p)) is the cleaned form of p
C20_RoundTrip ==
    (out.op = "ResolvePath" /\ UnderMount(fs, PathClean(out.path)))
    => out.rel = PathClean(out.path)

\* the key of the backend root: what ResolvePath gives for the mount root
RootKey(fsv) == Join(fsv.KeyPrefix, <<>>)

\* the mount root as the user sees it
MountRoot(fsv) == IF fsv.mountPath # <<>> THEN fsv.mountPath ELSE Slash

\* the key is the backend root or lies beneath the key prefix
UnderKeyPrefix(fsv, k) == k = RootKey(fsv) \/ HasPrefix(k, fsv.KeyPrefix)

\* C21: ResolvePath of a virtual path outside the mount path gives the backend
\* root key, every key ResolvePath returns lies within the key prefix and has
\* no leading "/", and GetRelativePath of a key outside the key prefix gives
\* the mount root
C21_FailsClosed ==
    /\ (out.op = "ResolvePath" /\ ~UnderMount(fs, PathClean(out.path)))
       => out.key = RootKey(fs)
    /\ out.op = "ResolvePath"
       => (UnderKeyPrefix(fs, out.key) /\ ~HasPrefix(out.key, Slash))
    /\ (out.op = "GetRelativePath" /\ ~HasPrefix(Slash \o out.key, Slash \o fs.KeyPrefix))
       => out.rel = MountRoot(fs)

-----------------------------------------------------------------------------
(* Walk: one listing of the whole tree beneath root, a call of walkFn for   *)
(* every entry and a last call for root itself.                             *)

\* what walkFn may return to stop the walk
ErrVisit == "walkFn error"

\* the loop over the objects of the pages (646-659): visitFail = j > 0 makes
\* the j-th call of walkFn return an error
RECURSIVE WalkLoop(_, _, _, _)
WalkLoop(objects, prefix, visits, visitFail) ==
    IF objects = <<>> THEN [visits |-> visits, err |-> Nil]
    ELSE IF Head(objects).Deleted
              \/ resolve(Head(objects).Name, prefix, Head(objects).ContentType).name = <<>>
    THEN WalkLoop(Tail(objects), prefix, visits, visitFail)
    ELSE IF Len(visits) + 1 = visitFail
    THEN [visits |-> Append(visits, [path |-> Head(objects).Name,
                                     info |-> NewFileInfo(
                                        resolve(Head(objects).Name, prefix, Head(objects).ContentType).name,
                                        resolve(Head(objects).Name, prefix, Head(objects).ContentType).isDir,
                                        Head(objects).Size),
                                     err |-> Nil]),
          err |-> ErrVisit]
    ELSE WalkLoop(Tail(objects), prefix,
                  Append(visits, [path |-> Head(objects).Name,
                                  info |-> NewFileInfo(
                                     resolve(Head(objects).Name, prefix, Head(objects).ContentType).name,
                                     resolve(Head(objects).Name, prefix, Head(objects).ContentType).isDir,
                                     Head(objects).Size),
                                  err |-> Nil]),
                  visitFail)

\* what Walk does after the pages it read: lp is the loop's result, failed
\* tells that the next page failed
WalkReturn(root, lp, failed) ==
    IF lp.err # Nil THEN lp
    ELSE IF failed
    THEN [visits |-> Append(lp.visits, [path |-> root, info |-> NoInfo, err |-> ErrApi500]),
          err |-> ErrApi500]
    ELSE [visits |-> Append(lp.visits, [path |-> root, info |-> NewFileInfo(root, TRUE, 0),
                                        err |-> Nil]),
          err |-> Nil]

\* the pages Walk reads: all of them, or those before the failing one
WalkPagesRead(pages, failPage) ==
    Flatten(pages, IF failPage \in 1..Len(pages) THEN failPage - 1 ELSE Len(pages))

\* failPage = j > 0: the j-th NextPage call fails (when there is one)
Walk(st, root, failPage, visitFail) ==
    WalkReturn(root,
               WalkLoop(WalkPagesRead(ListPages(st, getPrefix(root), FALSE, PageSize), failPage),
                        getPrefix(root), <<>>, visitFail),
               failPage \in 1..Len(ListPages(st, getPrefix(root), FALSE, PageSize)))

\* what a key of a walked bucket may hold
WalkChoices ==
    [k \in {kA, kB, kD, kF, kCm, kCs, kE} |->
        CASE k = kA -> {Obj(0, dirMimeType, "marker", 1, FALSE)}
          [] k = kB -> {Obj(10, "text/plain", "b", 1, FALSE)}
          [] k = kD -> {Obj(5, "text/plain", "d", 1, FALSE)}
          [] k = kF -> {Obj(3, "", "f", 1, FALSE)}
          [] k = kCm -> {Obj(0, dirMimeType, "marker", 1, FALSE)}
          [] k = kCs -> {Obj(0, "", "s", 1, FALSE)}
          [] k = kE -> {Obj(2, "", "e", 1, TRUE)}]

RECURSIVE WalkBucketsOver(_)
WalkBucketsOver(K) ==
    IF K = {} THEN {EmptyBucket}
    ELSE LET k == CHOOSE x \in K : TRUE
         IN WalkBucketsOver(K \ {k})
            \cup {Put(st, k, o) : st \in WalkBucketsOver(K \ {k}), o \in WalkChoices[k]}

WalkBuckets == WalkBucketsOver(DOMAIN WalkChoices)

WalkRoots == {<<>>, pA, pC}

InitWalk ==
    /\ store \in WalkBuckets
    /\ nextGen = FirstGen
    /\ renameMode = 0
    /\ faults = 0
    /\ phase = "idle"
    /\ args = NoArgs
    /\ stack = <<>>
    /\ ret = NoRet
    /\ store0 = store
    /\ removed = {}
    /\ copied = <<>>
    /\ wr = <<>>
    /\ out = IdleLists
    /\ fs = RootFs
    /\ xfer = <<>>
    /\ sink = <<>>
    /\ overlay = NoOverlay

WalkDone(root, failPage, visitFail, r) ==
    out' = [op |-> "Walk", root |-> root, failPage |-> failPage, visitFail |-> visitFail,
            visits |-> r.visits, err |-> r.err]

\* one Walk in a behaviour: it reads the bucket and changes nothing
CallWalk(root) ==
    /\ out.op = "none"
    /\ \E failPage \in 0..NumPages(store, root, FALSE) :
         \E visitFail \in 0..Cardinality(DOMAIN store) :
            WalkDone(root, failPage, visitFail, Walk(store, root, failPage, visitFail))
    /\ UNCHANGED <<store, nextGen, renameMode, faults, phase, args, stack, ret,
                   store0, removed, copied, wr, fs, xfer, sink, overlay>>

NextWalk == \E root \in WalkRoots : CallWalk(root)

SpecWalk == InitWalk /\ [][NextWalk]_vars

\* the live objects under the prefix of root other than the root's marker
WalkedKeys(st, root) ==
    {k \in DOMAIN st : /\ HasPrefix(k, getPrefix(root))
                       /\ k # getPrefix(root)
                       /\ ~st[k].Deleted}

\* the last call of walkFn is for root, as a directory and without error
RootLast ==
    LET v == out.visits[Len(out.visits)]
    IN v.path = out.root /\ v.info.isDir /\ v.info.size = 0 /\ v.err = Nil

\* C22: when walkFn returns no error, a Walk whose pages are all read calls
\* walkFn once for every live object under the root prefix other than the root
\* marker and then, last, for the root directory; a Walk with a failing page
\* passes the listing error to walkFn with the root path as its last call and
\* returns that error
C22_WalkVisitsAll ==
    (out.op = "Walk" /\ out.visitFail = 0) =>
        IF out.failPage = 0
        THEN /\ out.err = Nil
             /\ Len(out.visits) = Cardinality(WalkedKeys(store, out.root)) + 1
             /\ \A k \in WalkedKeys(store, out.root) :
                    \E i \in 1..(Len(out.visits) - 1) : out.visits[i].path = k
             /\ RootLast
        ELSE /\ out.err = ErrApi500
             /\ out.visits[Len(out.visits)].path = out.root
             /\ out.visits[Len(out.visits)].err = out.err

-----------------------------------------------------------------------------
(* The single calls: Mkdir, Remove of a directory, Chtimes and the calls    *)
(* the backend does not support, one call in a behaviour, on the buckets of *)
(* the rename calls and with and without a metadata plugin.                 *)

\* Mkdir after its Stat s (279-283)
mkdirAfterStat(st, name, gen, f, s) ==
    IF ~IsNotExist(s.err) THEN [err |-> s.err, store |-> st]
    ELSE mkdirInternal(st, name, gen, f)

\* f = "head", "list", "head2": that call of Stat fails; f = "pipe", "upload":
\* that step of mkdirInternal fails
Mkdir(st, fsv, name, gen, f) ==
    mkdirAfterStat(st, name, gen, f, Stat(st, fsv, name, f))

MkdirNames == {pA, pC, kB, pX, pZ}

InitOps ==
    /\ store \in Buckets
    /\ nextGen = FirstGen
    /\ renameMode = 0
    /\ faults = 0
    /\ phase = "idle"
    /\ args = NoArgs
    /\ stack = <<>>
    /\ ret = NoRet
    /\ store0 = store
    /\ removed = {}
    /\ copied = <<>>
    /\ wr = <<>>
    /\ out = IdleLists
    /\ fs = RootFs
    /\ xfer = <<>>
    /\ sink = <<>>
    /\ overlay \in Overlays

MkdirDone(name, f, s, r) ==
    /\ store' = r.store
    /\ nextGen' = nextGen + 1
    /\ out' = [op |-> "Mkdir", name |-> name, fault |-> f, stat |-> s.err, err |-> r.err]

CallMkdir(name) ==
    /\ out.op = "none"
    /\ \E f \in {FaultNone, "head", "list", "head2", "pipe", "upload"} :
         MkdirDone(name, f, Stat(store, fs, name, f), Mkdir(store, fs, name, nextGen, f))
    /\ UNCHANGED <<renameMode, faults, phase, args, stack, ret,
                   store0, removed, copied, wr, fs, xfer, sink, overlay>>

RemoveDirDone(name, f, r) ==
    /\ store' = r.store
    /\ overlay' = r.overlay
    /\ out' = [op |-> "RemoveDir", name |-> name, fault |-> f, stat |-> Nil, err |-> r.err]

\* Remove(name, true)
CallRemoveDir(name) ==
    /\ out.op = "none"
    /\ \E f \in {FaultNone, "list", "head", "delete", "delete2"} :
         RemoveDirDone(name, f, RemoveOverlay(store, overlay, name, TRUE, f))
    /\ UNCHANGED <<nextGen, renameMode, faults, phase, args, stack, ret,
                   store0, removed, copied, wr, fs, xfer, sink>>

ErrVfsUnsupported == "ErrVfsUnsupported"

\* Chtimes after its Stat s (311-319)
chtimesAfterStat(ov, name, mtime, isUploading, s) ==
    IF ~ov.HasMetadater THEN [err |-> ErrVfsUnsupported, overlay |-> ov]
    ELSE IF ~isUploading /\ s.err # Nil THEN [err |-> s.err, overlay |-> ov]
    ELSE IF ~isUploading /\ s.info.isDir THEN [err |-> ErrVfsUnsupported, overlay |-> ov]
    ELSE SetModificationTime(ov, ensureAbsPath(name), mtime)

\* f = "head", "list", "head2": that call of Stat fails
Chtimes(st, fsv, ov, name, mtime, isUploading, f) ==
    chtimesAfterStat(ov, name, mtime, isUploading, Stat(st, fsv, name, f))

\* the time a Chtimes call asks for
NewTime == 9

ChtimesDone(name, isUploading, f, r) ==
    /\ overlay' = r.overlay
    /\ out' = [op |-> "Chtimes", name |-> name, fault |-> f, stat |-> Nil, err |-> r.err,
               isUploading |-> isUploading, before |-> overlay.modTimes]

CallChtimes(name, isUploading) ==
    /\ out.op = "none"
    /\ \E f \in {FaultNone, "head", "list", "head2"} :
         ChtimesDone(name, isUploading, f,
                     Chtimes(store, fs, overlay, name, NewTime, isUploading, f))
    /\ UNCHANGED <<store, nextGen, renameMode, faults, phase, args, stack, ret,
                   store0, removed, copied, wr, fs, xfer, sink>>

ErrStorageSizeUnavailable == "ErrStorageSizeUnavailable"

IsNotSupported(err) ==
    IF err = Nil THEN FALSE ELSE err = ErrVfsUnsupported

Symlink(source, target) == ErrVfsUnsupported

Readlink(name) == [target |-> <<>>, err |-> ErrVfsUnsupported]

Chown(name, uid, gid) == ErrVfsUnsupported

Chmod(name, mode) == ErrVfsUnsupported

\* Truncate that reports success
TruncateSucceeds(name, size) == Nil

Truncate(name, size) == ErrVfsUnsupported

\* no size: the *sftp.StatVFS is nil
GetAvailableDiskSize(dirName) == [size |-> Nil, err |-> ErrStorageSizeUnavailable]

\* the calls below are made in any state, also after another call
Returned(op, name, result, err) ==
    /\ out' = [op |-> op, name |-> name, fault |-> FaultNone, stat |-> Nil, err |-> err,
               result |-> result]
    /\ UNCHANGED <<store, nextGen, renameMode, faults, phase, args, stack, ret,
                   store0, removed, copied, wr, fs, xfer, sink, overlay>>

CallSymlink(source, target) == Returned("Symlink", source, <<>>, Symlink(source, target))

CallReadlink(name) == Returned("Readlink", name, Readlink(name).target, Readlink(name).err)

CallChown(name) == \E uid \in 0..1 : Returned("Chown", name, <<>>, Chown(name, uid, uid))

CallChmod(name) == \E mode \in 0..1 : Returned("Chmod", name, <<>>, Chmod(name, mode))

CallTruncate(name) == \E size \in 0..1 : Returned("Truncate", name, <<>>, Truncate(name, size))

CallGetAvailableDiskSize(dirName) ==
    Returned("GetAvailableDiskSize", dirName, GetAvailableDiskSize(dirName).size,
             GetAvailableDiskSize(dirName).err)

\* a directory and a file
UnsupportedNames == {pC, kB}

CallUnsupported(name) ==
    \/ CallSymlink(name, pX)
    \/ CallReadlink(name)
    \/ CallChown(name)
    \/ CallChmod(name)
    \/ CallTruncate(name)
    \/ CallGetAvailableDiskSize(name)

NextOps ==
    \/ \E name \in MkdirNames : CallMkdir(name)
    \/ \E name \in MkdirNames : CallRemoveDir(name)
    \/ \E name \in MkdirNames, isUploading \in BOOLEAN : CallChtimes(name, isUploading)
    \/ \E name \in UnsupportedNames : CallUnsupported(name)

SpecOps == InitOps /\ [][NextOps]_vars

\* the name is a file, a marked directory or a virtual directory of the bucket
Resolves(st, name) ==
    \/ Live(st, name)
    \/ Live(st, name \o Slash)
    \/ KeysBeneath(st, name) # {}

\* C23: a Mkdir of a name that is a file, a marked directory or a virtual
\* directory changes no object; a Mkdir whose Stat fails with an error other than
\* not-found returns that error and changes nothing; a Mkdir that changes the
\* bucket had not-found from Stat and creates the one marker name + "/", which
\* did not exist
C23_MkdirNoOpWhenPresent ==
    out.op = "Mkdir" =>
        /\ (out.fault = FaultNone /\ Resolves(store0, out.name)) => store = store0
        /\ (out.stat # Nil /\ ~IsNotExist(out.stat))
           => (out.err = out.stat /\ store = store0)
        /\ store # store0
           => /\ IsNotExist(out.stat)
              /\ (out.name \o Slash) \notin DOMAIN store0
              /\ store = Put(store0, out.name \o Slash,
                             Obj(0, dirMimeType, "marker", nextGen - 1, FALSE))

\* C24: with no backend call failing, Remove(name, true) of a directory that
\* has an object beneath name + "/" returns the non-empty-directory error and
\* deletes nothing; of an empty directory it deletes the marker name + "/",
\* or, when that key is not found, the marker name
C24_RemoveDirectory ==
    (out.op = "RemoveDir" /\ out.fault = FaultNone) =>
        IF KeysBeneath(store0, out.name) # {}
        THEN out.err = ErrNonEmptyRemove /\ store = store0
        ELSE IF Live(store0, out.name \o Slash)
        THEN out.err = Nil /\ store = Del(store0, out.name \o Slash)
        ELSE IF Live(store0, out.name)
        THEN out.err = Nil /\ store = Del(store0, out.name)
        ELSE IsNotExist(out.err) /\ store = store0

\* the name is a directory of the bucket: a marker with or without the trailing
\* slash, or a name with objects beneath it
IsDirectoryName(st, name) ==
    IF Live(st, name) THEN st[name].ContentType = dirMimeType
    ELSE Live(st, name \o Slash) \/ KeysBeneath(st, name) # {}

\* C25: Chtimes returns the unsupported error when there is no metadata plugin,
\* and a Chtimes of a directory, uploading or not, leaves the modification
\* times of the plugin as they were
C25_ChtimesNeverOnDirectory ==
    out.op = "Chtimes" =>
        /\ ~overlay.HasMetadater => out.err = ErrVfsUnsupported
        /\ IsDirectoryName(store, out.name) => overlay.modTimes = out.before

UnsupportedOps == {"Symlink", "Readlink", "Chown", "Chmod", "Truncate"}

\* C26: in every state Symlink, Readlink, Chown, Chmod and Truncate return
\* the unsupported error, for which IsNotSupported is true, and
\* GetAvailableDiskSize returns the size-unavailable error and no size; none of
\* them changes the bucket or the plugin's records
C26_UnsupportedCalls ==
    [][/\ out'.op \in UnsupportedOps
          => /\ out'.err = ErrVfsUnsupported
             /\ IsNotSupported(out'.err)
             /\ store' = store /\ overlay' = overlay
       /\ out'.op = "GetAvailableDiskSize"
          => /\ out'.err = ErrStorageSizeUnavailable
             /\ out'.result = Nil
             /\ store' = store /\ overlay' = overlay]_vars

\* a Truncate made after a Mkdir that created a marker, with a plugin that
\* holds a time
C26_Witness ==
    /\ out.op = "Truncate"
    /\ store # store0
    /\ overlay.HasMetadater /\ overlay.modTimes # <<>>

\* C27: a Rename whose source is its target returns no error, has made no
\* backend call (none that could fail, no copy, no delete, no write) and
\* leaves the bucket as it was
C27_RenameOntoItself ==
    (phase = "done" /\ args.source = args.target) =>
        /\ ret = [n |-> -1, size |-> -1, err |-> Nil]
        /\ store = store0
        /\ faults = 0 /\ copied = <<>> /\ removed = {} /\ nextGen = FirstGen

\* such a Rename of a name the bucket does not hold
C27_Witness ==
    /\ phase = "done" /\ args.source = pC /\ args.target = pC
    /\ ~Resolves(store, pC)
    /\ store # EmptyBucket

-----------------------------------------------------------------------------
(* The classifiers IsNotExist, IsPermission and IsNotSupported, applied to  *)
(* the errors the backend returns and to errors that look like them.        *)

ErrApi400 == "googleapi 400"
ErrApi401 == "googleapi 401"
ErrApi403 == "googleapi 403"
ErrApi409 == "googleapi 409"
ErrApi429 == "googleapi 429"
ErrApi503 == "googleapi 503"

\* an error that wraps the native not-exist error: not equal to it
ErrWrappedNotExist == "wrapped: storage.ErrObjectNotExist"

\* err.(*googleapi.Error): the errors of that type, with their e.Code
ApiCode ==
    (ErrApi400 :> 400) @@ (ErrApi401 :> 401) @@ (ErrApi403 :> 403)
    @@ (ErrApi404 :> 404) @@ (ErrApi409 :> 409) @@ (ErrApi412 :> 412)
    @@ (ErrApi429 :> 429) @@ (ErrApi500 :> 500) @@ (ErrApi503 :> 503)

StatusForbidden == 403
StatusUnauthorized == 401

\* IsPermission that takes every API error for a denial
IsPermissionAnyApiError(err) ==
    IF err = Nil THEN FALSE ELSE err \in DOMAIN ApiCode

IsPermission(err) ==
    IF err = Nil THEN FALSE
    ELSE IF err \in DOMAIN ApiCode
    THEN ApiCode[err] = StatusForbidden \/ ApiCode[err] = StatusUnauthorized
    ELSE FALSE

Errors ==
    {Nil, ErrObjectNotExist, ErrBucketNotExist, ErrWrappedNotExist,
     ErrVfsUnsupported, ErrStorageSizeUnavailable, ErrNonEmptyRename,
     ErrNonEmptyRemove, ErrMetadata, ErrVisit, ErrPipe, ErrCanceled,
     ErrClosedPipe, ErrGzipRange}
    \cup DOMAIN ApiCode

InitErrors ==
    /\ store = EmptyBucket
    /\ nextGen = FirstGen
    /\ renameMode = 0
    /\ faults = 0
    /\ phase = "idle"
    /\ args = NoArgs
    /\ stack = <<>>
    /\ ret = NoRet
    /\ store0 = store
    /\ removed = {}
    /\ copied = <<>>
    /\ wr = <<>>
    /\ \E e \in Errors :
         out = [op |-> "classify", err |-> e, asked |-> {}, IsNotExist |-> FALSE,
                IsPermission |-> FALSE, IsNotSupported |-> FALSE]
    /\ fs = RootFs
    /\ xfer = <<>>
    /\ sink = <<>>
    /\ overlay = NoOverlay

CallIsNotExist ==
    /\ "IsNotExist" \notin out.asked
    /\ out' = [out EXCEPT !.asked = @ \cup {"IsNotExist"},
                          !.IsNotExist = IsNotExist(out.err)]
    /\ UNCHANGED <<store, nextGen, renameMode, faults, phase, args, stack, ret,
                   store0, removed, copied, wr, fs, xfer, sink, overlay>>

CallIsPermission ==
    /\ "IsPermission" \notin out.asked
    /\ out' = [out EXCEPT !.asked = @ \cup {"IsPermission"},
                          !.IsPermission = IsPermission(out.err)]
    /\ UNCHANGED <<store, nextGen, renameMode, faults, phase, args, stack, ret,
                   store0, removed, copied, wr, fs, xfer, sink, overlay>>

CallIsNotSupported ==
    /\ "IsNotSupported" \notin out.asked
    /\ out' = [out EXCEPT !.asked = @ \cup {"IsNotSupported"},
                          !.IsNotSupported = IsNotSupported(out.err)]
    /\ UNCHANGED <<store, nextGen, renameMode, faults, phase, args, stack, ret,
                   store0, removed, copied, wr, fs, xfer, sink, overlay>>

NextErrors == CallIsNotExist \/ CallIsPermission \/ CallIsNotSupported

SpecErrors == InitErrors /\ [][NextErrors]_vars

\* the classifiers asked so far that answered true
TrueAnswers == {p \in out.asked : out[p]}

\* C28: IsNotExist answers true exactly for the two native not-exist errors
\* and the API errors of status 404, IsPermission exactly for the API errors
\* of status 401 and 403, IsNotSupported exactly for the unsupported error;
\* nil gets false from all three and no error gets true from two of them
C28_Classifiers ==
    /\ "IsNotExist" \in out.asked
       => out.IsNotExist = (\/ out.err \in {ErrObjectNotExist, ErrBucketNotExist}
                            \/ (out.err \in DOMAIN ApiCode /\ ApiCode[out.err] = 404))
    /\ "IsPermission" \in out.asked
       => out.IsPermission = (out.err \in DOMAIN ApiCode /\ ApiCode[out.err] \in {401, 403})
    /\ "IsNotSupported" \in out.asked
       => out.IsNotSupported = (out.err = ErrVfsUnsupported)
    /\ out.err = Nil => TrueAnswers = {}
    /\ Cardinality(TrueAnswers) <= 1

\* the three classifiers asked about an API error of status 403
C28_Witness ==
    /\ out.err = ErrApi403
    /\ out.asked = {"IsNotExist", "IsPermission", "IsNotSupported"}
    /\ out.IsNotExist = FALSE /\ out.IsPermission = TRUE /\ out.IsNotSupported = FALSE

-----------------------------------------------------------------------------
(* Remove and Rename of a file, call by call into the backend, while other  *)
(* clients of the bucket replace or delete the same object between the      *)
(* calls.                                                                   *)

\* the writes and deletes other clients make in one behaviour, at most
MaxOthers == 2

\* the file the calls and the other clients work on
RaceKeys == {kB}

IdleRace ==
    [op |-> "none", pc |-> "idle", name |-> <<>>, target |-> <<>>, cond |-> NoCond,
     headErr |-> Nil, delErr |-> Nil, err |-> Nil, asked |-> FALSE,
     n |-> 0, size |-> 0, mtime |-> 0, sizeAtStat |-> 0, copiedContent |-> ""]

InitRace ==
    /\ store \in {[k \in K |-> Universe[k]] : K \in SUBSET {kB, kD}}
    /\ nextGen = FirstGen
    /\ renameMode = 1
    /\ faults = 0
    /\ phase = "idle"
    /\ args = NoArgs
    /\ stack = <<>>
    /\ ret = NoRet
    /\ store0 = store
    /\ removed = {}
    /\ copied = <<>>
    /\ wr = <<>>
    /\ out = IdleRace
    /\ fs = RootFs
    /\ xfer = <<>>
    /\ sink = <<>>
    /\ overlay \in Overlays

\* Remove(name, false) is called
RaceRemove(name) ==
    /\ out.pc = "idle"
    /\ out' = [out EXCEPT !.op = "Remove", !.pc = "head", !.name = name]
    /\ UNCHANGED <<store, nextGen, renameMode, faults, phase, args, stack, ret,
                   store0, removed, copied, wr, fs, xfer, sink, overlay>>

\* Rename(source, target) up to renameInternal's copy: the Stat of a file
RaceRename(source, target) ==
    /\ out.pc = "idle"
    /\ source # target
    /\ LET s == getObjectStat(store, source, FaultNone) IN
       /\ s.err # Nil \/ ~s.info.isDir
       /\ out' = IF s.err # Nil
                 THEN [out EXCEPT !.op = "Rename", !.pc = "done", !.name = source,
                                  !.target = target, !.n = -1, !.size = -1, !.err = s.err]
                 ELSE [out EXCEPT !.op = "Rename", !.pc = "copy", !.name = source,
                                  !.target = target, !.size = s.info.size,
                                  !.sizeAtStat = store[source].Size,
                                  !.mtime = ModTimeOf(store, overlay, source)]
    /\ UNCHANGED <<store, nextGen, renameMode, faults, phase, args, stack, ret,
                   store0, removed, copied, wr, fs, xfer, sink, overlay>>

\* copyFileInternal and SetModificationTime (801-813);
\* f = "head", "copy": that backend call fails
RenameCopy ==
    /\ out.pc = "copy"
    /\ \E f \in {FaultNone, "head", "copy"} :
         LET cp == copyFileInternal(store, out.name, out.target, nextGen, f) IN
         /\ CanFail(f)
         /\ faults' = Count(f)
         /\ store' = cp.store
         /\ nextGen' = nextGen + 1
         /\ IF cp.err # Nil
            THEN /\ out' = [out EXCEPT !.pc = "done", !.n = 0, !.size = 0, !.err = cp.err]
                 /\ UNCHANGED overlay
            ELSE /\ out' = [out EXCEPT !.pc = "head", !.n = 1,
                                       !.copiedContent = store[out.name].content]
                 /\ overlay' = IF overlay.HasMetadater
                               THEN SetModificationTime(overlay, ensureAbsPath(out.target),
                                                        out.mtime).overlay
                               ELSE overlay
    /\ UNCHANGED <<renameMode, phase, args, stack, ret,
                   store0, removed, copied, wr, fs, xfer, sink>>

\* Remove that puts no precondition on its delete
removeCondNone(h) == NoCond

\* the precondition Remove takes from its head call (253-259)
removeCond(h) ==
    IF h.err = Nil THEN GenerationMatch(h.attrs.Generation) ELSE NoCond

\* Remove: the head call (253); f = "head": it fails
RemoveHead ==
    /\ out.pc = "head"
    /\ \E f \in {FaultNone, "head"} :
         LET h == headObject(store, out.name, f = "head") IN
         /\ CanFail(f)
         /\ faults' = Count(f)
         /\ out' = [out EXCEPT !.pc = "delete", !.cond = removeCond(h), !.headErr = h.err]
    /\ UNCHANGED <<store, nextGen, renameMode, phase, args, stack, ret,
                   store0, removed, copied, wr, fs, xfer, sink, overlay>>

\* Remove: obj.Delete (264); f = "delete": it fails
RemoveDelete ==
    /\ out.pc = "delete"
    /\ \E f \in {FaultNone, "delete"} :
         LET d == DeleteObject(store, out.name, out.cond, f = "delete") IN
         /\ CanFail(f)
         /\ faults' = Count(f)
         /\ store' = d.store
         /\ out' = [out EXCEPT !.pc = "metadata", !.delErr = d.err, !.err = d.err]
    /\ UNCHANGED <<nextGen, renameMode, phase, args, stack, ret,
                   store0, removed, copied, wr, fs, xfer, sink, overlay>>

\* the test before RemoveMetadata (270), for a file
removeMetadataWanted(ov, err) == ov.HasMetadater /\ err = Nil

\* Remove: RemoveMetadata and the return (270-275)
RemoveMeta ==
    /\ out.pc = "metadata"
    /\ out' = [out EXCEPT !.pc = IF out.op = "Rename" THEN "return" ELSE "done",
                          !.asked = removeMetadataWanted(overlay, out.err)]
    /\ overlay' = IF removeMetadataWanted(overlay, out.err)
                  THEN RemoveMetadata(overlay, ensureAbsPath(out.name)).overlay
                  ELSE overlay
    /\ UNCHANGED <<store, nextGen, renameMode, faults, phase, args, stack, ret,
                   store0, removed, copied, wr, fs, xfer, sink>>

\* Rename that returns the not-found error of its delete
renameReturnErrKept(err) == err

\* the error renameInternal returns after Remove (815-818)
renameReturnErr(err) == IF IsNotExist(err) THEN Nil ELSE err

\* renameInternal after Remove (815-819)
RenameReturn ==
    /\ out.pc = "return"
    /\ out' = [out EXCEPT !.pc = "done", !.err = renameReturnErr(out.err)]
    /\ UNCHANGED <<store, nextGen, renameMode, faults, phase, args, stack, ret,
                   store0, removed, copied, wr, fs, xfer, sink, overlay>>

\* another client writes a new object at the key
OtherReplace(k) ==
    /\ out.pc # "done"
    /\ Len(wr) < MaxOthers
    /\ store' = Put(store, k, Obj(1, "text/plain", "other", nextGen, FALSE))
    /\ nextGen' = nextGen + 1
    /\ wr' = Append(wr, [op |-> "replace", key |-> k])
    /\ UNCHANGED <<renameMode, faults, phase, args, stack, ret,
                   store0, removed, copied, out, fs, xfer, sink, overlay>>

\* another client deletes the object at the key
OtherDelete(k) ==
    /\ out.pc # "done"
    /\ Len(wr) < MaxOthers
    /\ Live(store, k)
    /\ store' = Del(store, k)
    /\ wr' = Append(wr, [op |-> "delete", key |-> k])
    /\ UNCHANGED <<nextGen, renameMode, faults, phase, args, stack, ret,
                   store0, removed, copied, out, fs, xfer, sink, overlay>>

NextRace ==
    \/ \E k \in RaceKeys : RaceRemove(k)
    \/ \E k \in RaceKeys : RaceRename(k, pX)
    \/ RenameCopy
    \/ RemoveHead
    \/ RemoveDelete
    \/ RemoveMeta
    \/ RenameReturn
    \/ \E k \in RaceKeys : OtherReplace(k)
    \/ \E k \in RaceKeys : OtherDelete(k)

SpecRace == InitRace /\ [][NextRace]_vars

\* the step is the delete of Remove
IsDeleteStep == out.pc = "delete" /\ out'.pc = "metadata"

\* C29: the delete of a file Remove whose head call succeeded fails and keeps
\* the object when the object is no longer the one the head call saw; after a
\* head call that failed the delete has no precondition and deletes the
\* object that is there (unless the delete call itself fails); RemoveMetadata
\* is called only after a delete that returned no error
C29_RemoveGenerationMatch ==
    [][/\ (IsDeleteStep /\ out.op = "Remove" /\ out.headErr = Nil
            /\ Live(store, out.name) /\ store[out.name].Generation # out.cond.gen)
          => (out'.err # Nil /\ store' = store)
       /\ (IsDeleteStep /\ out.op = "Remove" /\ out.headErr # Nil)
          => /\ out.cond = NoCond
             /\ (Live(store, out.name) /\ out'.err # ErrApi500)
                => (out'.err = Nil /\ ~Live(store', out.name))
       /\ (out.op = "Remove" /\ out.pc = "metadata" /\ out'.pc = "done"
            /\ (out'.asked \/ overlay' # overlay))
          => (out.err = Nil /\ overlay.HasMetadater)]_vars

\* a Remove whose delete failed on its precondition: the object was replaced
\* after the head call and the newer object is still there
C29_Witness ==
    /\ out.op = "Remove" /\ out.pc = "done"
    /\ out.headErr = Nil /\ out.err = ErrApi412
    /\ Live(store, out.name)
    /\ store[out.name].Generation > out.cond.gen

\* the target holds what the source held when it was copied
TargetHoldsCopy ==
    /\ Live(store, out.target)
    /\ store[out.target].content = out.copiedContent

\* C30: in a file Rename whose copy succeeded, a delete that finds the source
\* gone gives not-found, and Rename then returns no error with the counts
\* (1, size) while the target holds the copy; a delete that fails otherwise
\* with the source there removes nothing, source and target both stay, and
\* Rename returns that error with the counts (1, size)
C30_RenameSourceGone ==
    [][/\ (IsDeleteStep /\ out.op = "Rename" /\ ~Live(store, out.name)
            /\ out'.err # ErrApi500)
          => IsNotExist(out'.delErr)
       /\ (IsDeleteStep /\ out.op = "Rename" /\ Live(store, out.name)
            /\ out'.delErr # Nil)
          => /\ ~IsNotExist(out'.delErr)
             /\ store' = store
             /\ Live(store', out.name) /\ Live(store', out.target)
       /\ (out.op = "Rename" /\ out.pc = "return" /\ out'.pc = "done")
          => /\ out'.n = 1 /\ out'.size = out.sizeAtStat
             /\ IsNotExist(out.delErr) => (out'.err = Nil /\ TargetHoldsCopy)
             /\ ~IsNotExist(out.delErr) => out'.err = out.delErr]_vars

\* a Rename that returned no error although its delete found the source gone:
\* another client deleted it after the copy
C30_Witness ==
    /\ out.op = "Rename" /\ out.pc = "done"
    /\ out.delErr = ErrObjectNotExist /\ out.err = Nil /\ out.n = 1
    /\ \E i \in 1..Len(wr) : wr[i].op = "delete"
    /\ Live(store, out.target) /\ ~Live(store, out.name)

\* C31: with the listing answered, hasContents(name) returns true exactly
\* when the bucket holds a live object under name + "/" other than the key
\* name + "/" itself
C31_HasContentsExact ==
    (out.op = "hasContents" /\ faults = 0)
    => (out.err = Nil /\ out.result = (KeysBeneath(store, out.name) # {}))

\* the Rename is of a directory onto a target whose marker exists
OntoMarkedTarget ==
    /\ phase = "done" /\ args.entered /\ args.isDir /\ faults = 0
    /\ Live(store0, args.target \o Slash)

\* C32: with no backend failure, a Rename of a directory onto a target whose
\* marker target + "/" exists copies nothing, deletes nothing and leaves the
\* bucket as it was, in both modes; when it comes to create the target marker
\* (mode 1, or mode 0 with a source found empty) it returns the precondition
\* error of that create
C32_RenameOntoExistingMarker ==
    OntoMarkedTarget =>
        /\ store = store0 /\ copied = <<>> /\ removed = {}
        /\ ret.n = 0 /\ ret.size = 0
        /\ (renameMode = 1 \/ ~hasContents(store0, args.source, FaultNone).result)
           => ret.err = ErrApi412
        /\ ret.err \in {ErrApi412, ErrNonEmptyRename}

\* such a Rename in mode 1 of a directory that has files beneath it
C32_Witness ==
    /\ OntoMarkedTarget /\ renameMode = 1
    /\ DescFiles # {}
    /\ ret.err = ErrApi412

\* C32 as claimed: such a Rename returns the precondition error of the create
\* of the target marker, in both modes, and leaves the bucket as it was
C32_AlwaysPreconditionError ==
    OntoMarkedTarget => (ret.err = ErrApi412 /\ store = store0)

\* the content a file had when Rename was called is still in the bucket at key k
HoldsContentOf(k, at) == Live(store, at) /\ store[at].content = store0[k].content

-----------------------------------------------------------------------------
(* Rename with the target beneath the source.                               *)

NextRenameInto ==
    \/ \E c \in RenameIntoCalls : RenameCall(c[1], c[2])
    \/ StepCheck
    \/ StepMkdir
    \/ StepList
    \/ StepLoop
    \/ StepCopy
    \/ StepRemove
    \/ StepReturn

SpecRenameInto == InitRename /\ [][NextRenameInto]_vars

\* the path elements of key k after the prefix of the source
ElementsBeneath(k) ==
    Cardinality({i \in (Len(SrcPrefix) + 1)..Len(k) :
                   i = Len(k) \/ (k[i] = "/" /\ i < Len(k))})

\* how deep the bucket was beneath the source when Rename was called
DepthAtCall ==
    LET ds == {ElementsBeneath(k) :
                 k \in {j \in DOMAIN store0 : HasPrefix(j, SrcPrefix) /\ j # SrcPrefix}}
    IN  IF ds = {} THEN 0 ELSE CHOOSE d \in ds : \A e \in ds : e <= d

\* C34: a recursive Rename terminates because its recursion follows the
\* finitely many entries the bucket holds, also with the target beneath the
\* source: with no backend failure, the nested invocations of renameInternal
\* never go deeper than the bucket was beneath the source when Rename was
\* called
C34_RecursionWithinContent ==
    (args.entered /\ renameMode = 1 /\ faults = 0) => Len(stack) <= 1 + DepthAtCall

-----------------------------------------------------------------------------
(* Mkdir: concurrent callers. Mkdir calls Stat and, when Stat reports       *)
(* not-found, mkdirInternal; other callers run between the two.             *)

MkdirRaceNames == {pC, pX}

IdleMkdir ==
    [pc |-> "idle", name |-> <<>>, statErr |-> Nil, err |-> Nil,
     wrote |-> FALSE, lost |-> FALSE, failed |-> FALSE]

InitMkdirRace ==
    /\ store \in {[k \in K |-> Universe[k]] : K \in SUBSET {kB, kD, kCm, kCs}}
    /\ nextGen = FirstGen
    /\ renameMode = 0
    /\ faults = 0
    /\ phase = "idle"
    /\ args = NoArgs
    /\ stack = <<>>
    /\ ret = NoRet
    /\ store0 = store
    /\ removed = {}
    /\ copied = <<>>
    /\ wr = [w \in Writers |-> IdleMkdir]
    /\ out = IdleLists
    /\ fs = RootFs
    /\ xfer = <<>>
    /\ sink = <<>>
    /\ overlay = NoOverlay

\* Mkdir(name) up to the result of its Stat (279-282)
MkdirStat(w, name) ==
    /\ wr[w].pc = "idle"
    /\ \E f \in {FaultNone, "head", "list", "head2"} :
         LET s == Stat(store, fs, name, f) IN
         /\ CanFail(f)
         /\ faults' = Count(f)
         /\ wr' = [wr EXCEPT ![w] =
                     IF ~IsNotExist(s.err)
                     THEN [@ EXCEPT !.pc = "done", !.name = name, !.statErr = s.err,
                                    !.err = s.err, !.failed = f # FaultNone]
                     ELSE [@ EXCEPT !.pc = "mkdir", !.name = name, !.statErr = s.err]]
    /\ UNCHANGED <<fs, xfer, sink, overlay, store, nextGen, renameMode, phase, args, stack, ret,
                   store0, removed, copied, out>>

\* Mkdir: mkdirInternal(name) and its result (283)
MkdirCreate(w) ==
    /\ wr[w].pc = "mkdir"
    /\ \E f \in {FaultNone, "pipe", "upload"} :
         LET r == mkdirInternal(store, wr[w].name, nextGen, f) IN
         /\ CanFail(f)
         /\ faults' = Count(f)
         /\ store' = r.store
         /\ nextGen' = IF r.err = Nil THEN nextGen + 1 ELSE nextGen
         /\ wr' = [wr EXCEPT ![w] =
                     [@ EXCEPT !.pc = "done", !.err = r.err,
                               !.wrote = r.store # store,
                               !.lost = Live(store, wr[w].name \o Slash),
                               !.failed = f # FaultNone]]
    /\ UNCHANGED <<fs, xfer, sink, overlay, renameMode, phase, args, stack, ret, store0, removed,
                   copied, out>>

NextMkdirRace ==
    \/ \E w \in Writers : \E name \in MkdirRaceNames : MkdirStat(w, name)
    \/ \E w \in Writers : MkdirCreate(w)

SpecMkdirRace == InitMkdirRace /\ [][NextMkdirRace]_vars

\* the callers of Mkdir(name), and those of them that wrote the marker
MkdirCallers(name) == {w \in Writers : wr[w].pc # "idle" /\ wr[w].name = name}

MarkerWriters(name) == {w \in MkdirCallers(name) : wr[w].wrote}

\* C35: for concurrent Mkdir calls on one name that Stat reported absent,
\* at most one call creates the directory marker; a call whose must-not-exist
\* create finds the marker written by another call returns the
\* precondition-failure error and writes nothing; and when all the calls
\* have returned with no backend failure, exactly one has created the marker
C35_OneMarkerCreated ==
    \A name \in MkdirRaceNames :
        IsNotExist(Stat(store0, fs, name, FaultNone).err) =>
            /\ Cardinality(MarkerWriters(name)) <= 1
            /\ \A w \in MkdirCallers(name) :
                 (wr[w].pc = "done" /\ wr[w].lost /\ ~wr[w].failed)
                 => (wr[w].err = ErrApi412 /\ ~wr[w].wrote)
            /\ (MkdirCallers(name) # {} /\ faults = 0
                  /\ \A w \in MkdirCallers(name) : wr[w].pc = "done")
               => /\ Cardinality(MarkerWriters(name)) = 1
                  /\ Live(store, name \o Slash)
                  /\ \A w \in MkdirCallers(name) : wr[w].err \in {Nil, ErrApi412}

C35_Witness ==
    \E w, v \in Writers :
        /\ w # v /\ faults = 0
        /\ wr[w].pc = "done" /\ wr[v].pc = "done"
        /\ wr[w].name = pC /\ wr[v].name = pC
        /\ IsNotExist(wr[w].statErr) /\ IsNotExist(wr[v].statErr)
        /\ wr[w].wrote /\ wr[w].err = Nil
        /\ wr[v].lost /\ wr[v].err = ErrApi412 /\ ~wr[v].wrote

====
